---- MODULE Spec2Model ----
(***************************************************************************)
(* Decision & chain-orchestration engine of SharkonAI.                     *)
(*                                                                         *)
(*   brain.py             _strip_thinking_tags, _extract_json,             *)
(*                        Brain.think, Brain.process_tool_result           *)
(*   telegram_handler.py  handle_text_message, execute_tool_chain,         *)
(*                        safe_reply                                       *)
(*   tools.py             dispatch_tool                                    *)
(*   memory.py            store_message, store_action, get_context_bundle  *)
(*   main.py              start_polling (one handler task per update)      *)
(*                                                                         *)
(* Python values are records [t |-> type, v |-> text]; a dict is a         *)
(* function from a set of keys to such values.  The text the model returns *)
(* is a sequence of tokens (think tags, prose, one JSON value).            *)
(***************************************************************************)
EXTENDS Integers, Sequences, FiniteSets, TLC

\* ------------------------------------------------------------------------
\* Configuration (config.example.py)
\* ------------------------------------------------------------------------

\* Config.MAX_CHAIN_STEPS: configurable, default 10; checked at small values.
MAX_CHAIN_STEPS == 2

\* Config.MAX_RETRIES
MAX_RETRIES == 3

\* ------------------------------------------------------------------------
\* Python / JSON values
\* ------------------------------------------------------------------------

Str(s) == [t |-> "str", v |-> s]

Null == [t |-> "null", v |-> "null"]

Bool(b) == [t |-> "bool", v |-> IF b THEN "true" ELSE "false"]

Num(s) == [t |-> "num", v |-> s]

EmptyMap == [t |-> "map", v |-> "{}"]

ListVal == [t |-> "list", v |-> "[1]"]

\* an object ({...}) as a top-level JSON value; d is the dict
Obj(d) == [t |-> "obj", d |-> d]

\* marks a key that is absent from a dict under construction
Missing == [t |-> "missing", v |-> ""]

\* Python truth value of x (bool(x))
Truthy(x) ==
    CASE x.t = "str"  -> x.v # ""
      [] x.t = "null" -> FALSE
      [] x.t = "bool" -> x.v = "true"
      [] x.t = "num"  -> x.v # "0"
      [] x.t = "map"  -> x.v # "{}"
      [] x.t = "list" -> x.v # "[]"
      [] x.t = "obj"  -> DOMAIN x.d # {}
      [] OTHER        -> FALSE

\* hash(x) succeeds: str, None, bool, numbers are hashable; list, dict are not
Hashable(x) == x.t \in {"str", "null", "bool", "num"}

Fields == {"thought", "action", "parameters", "response", "continue"}

\* the dict with the given values, minus the keys whose value is Missing
MkDict(th, ac, pa, re, co) ==
    LET full == [thought |-> th, action |-> ac, parameters |-> pa,
                 response |-> re, continue |-> co]
    IN  [k \in {f \in Fields : full[f] # Missing} |-> full[k]]

\* d.get(k, default)
Get(d, k, default) == IF k \in DOMAIN d THEN d[k] ELSE default

\* d.setdefault(k, default)
SetDefault(d, k, default) ==
    [f \in DOMAIN d \cup {k} |-> IF f \in DOMAIN d THEN d[f] ELSE default]

\* d[k] = val
SetItem(d, k, val) ==
    [f \in DOMAIN d \cup {k} |-> IF f = k THEN val ELSE d[f]]

\* ------------------------------------------------------------------------
\* Raw model text: a sequence of tokens
\* ------------------------------------------------------------------------

OpenTag == [k |-> "open"]      \* <think>

CloseTag == [k |-> "close"]    \* </think>

Prose == [k |-> "prose"]       \* narration without braces or quotes

Json(j) == [k |-> "json", j |-> j]  \* the text of one JSON value

\* index of the first token of kind kd at or after position i, 0 if none
RECURSIVE FindFrom(_, _, _)
FindFrom(s, kd, i) ==
    IF i > Len(s) THEN 0
    ELSE IF s[i].k = kd THEN i
    ELSE FindFrom(s, kd, i + 1)

\* re.sub(r"<think>.*?</think>", "", text): every paired block removed
RECURSIVE StripPaired(_)
StripPaired(s) ==
    LET o == FindFrom(s, "open", 1)
        c == IF o = 0 THEN 0 ELSE FindFrom(s, "close", o + 1)
    IN  IF o = 0 \/ c = 0 THEN s
        ELSE SubSeq(s, 1, o - 1) \o StripPaired(SubSeq(s, c + 1, Len(s)))

\* re.sub(r"<think>.*$", "", cleaned): an unterminated block runs to the end
StripOpen(s) ==
    LET o == FindFrom(s, "open", 1)
    IN  IF o = 0 THEN s ELSE SubSeq(s, 1, o - 1)

_strip_thinking_tags(text) == StripOpen(StripPaired(text))

\* the text of a token sequence, as a Python str
RECURSIVE Render(_)
Render(s) ==
    IF s = <<>> THEN ""
    ELSE (CASE s[1].k = "open"  -> "<think>"
            [] s[1].k = "close" -> "</think>"
            [] s[1].k = "prose" -> "prose"
            [] s[1].k = "json"  -> "json") \o Render(Tail(s))

\* the value None returned by _extract_json
None == [t |-> "None", v |-> "None"]

\* json.loads of the text of one JSON value; the JSON text null loads as None
Loads(j) == IF j.t = "null" THEN None ELSE j

_extract_json(raw) ==
    LET text == _strip_thinking_tags(raw)
        b    == FindFrom(text, "json", 1)
    IN  IF text = <<>> THEN None
        \* Step 2: the whole text is one JSON value
        ELSE IF Len(text) = 1 /\ text[1].k = "json" THEN Loads(text[1].j)
        \* Steps 3-4: an object embedded in other text is found by the scan
        ELSE IF b # 0 /\ text[b].j.t = "obj" THEN text[b].j
        \* Step 5 needs a quoted "response" field, which prose does not have
        ELSE None

\* ------------------------------------------------------------------------
\* What the model may answer
\* ------------------------------------------------------------------------

\* records with missing, null and wrongly-typed fields (Brain.think alone)
ThinkRecords ==
    { MkDict(th, ac, pa, re, co) :
        th \in {Missing, Str("t"), Null},
        ac \in {Missing, Str("none"), Str(""), Str("execute_cmd"), Null, Num("5")},
        pa \in {Missing, EmptyMap, Null, ListVal},
        re \in {Missing, Str("r1"), Str(""), Null, Num("5")},
        co \in {Missing, Bool(TRUE), Bool(FALSE), Null, Str("yes")} }

\* records the whole message handler is run on
ChainRecords ==
    { MkDict(Missing, ac, EmptyMap, re, co) :
        ac \in {Missing, Str("none"), Str(""), Str("execute_cmd"),
                Str("no_such_tool"), ListVal},
        re \in {Missing, Str("r1")},
        co \in {Missing, Bool(TRUE), Bool(FALSE)} }
    \cup { MkDict(Missing, ac, EmptyMap, Null, Bool(TRUE)) :
             ac \in {Str("none"), Str("execute_cmd")} }

\* a well-formed record, used where a record is embedded in other text
SampleRecord ==
    MkDict(Str("t"), Str("execute_cmd"), EmptyMap, Str("r1"), Bool(TRUE))

\* the texts response.choices[0].message.content may hold
RawOutputs(Recs) ==
    { <<Json(Obj(d))>> : d \in Recs }
    \cup { <<>>,                                   \* empty / None content
           <<Prose>>,
           <<OpenTag, Prose, CloseTag>>,
           <<OpenTag, Prose>>,
           <<OpenTag, Prose, CloseTag, Prose>>,
           <<Prose, Json(Obj(SampleRecord)), Prose>>,
           <<OpenTag, Prose, CloseTag, Json(Obj(SampleRecord))>>,
           <<Json(Null)>>,
           <<Json(ListVal)>>,
           <<Json(Num("5"))>> }

\* ------------------------------------------------------------------------
\* State
\* ------------------------------------------------------------------------

\* a local variable that holds no value (its function is not running)
Undef == [t |-> "undef", v |-> ""]

VARIABLES
    pc,                \* position of handle_text_message
    \* Brain.think
    attempt,           \* loop variable of the retry loop
    raw,               \* text of the last reasoning call
    outcomes,          \* what each reasoning call of this think() gave:
                       \* "exc", "unparseable", "nonobject" or "object"
    think_outcome,     \* "none", "returned" or "raised"
    context_reads,     \* calls of get_context_bundle by this think()
    messages,          \* the message list built from the context bundle
    temperature,       \* the temperature of the task type, in tenths; 0: not set
    requests,          \* the message list and temperature of each call
    \* handle_text_message
    initial_decision,  \* the Decision think() returned
    final_response,
    \* execute_tool_chain
    decision,
    follow_decision,
    should_continue,
    chain_context,
    step,
    status_msg,
    tool_result,
    \* Brain.process_tool_result
    reflect_messages,  \* the message list built for the reasoning call
    \* effects on the collaborators
    dispatches,        \* calls of dispatch_tool
    reflections,       \* calls of process_tool_result
    reflect_calls,     \* reasoning calls made by process_tool_result
    message_rows,      \* rows of the messages table written by this handler
    action_rows,       \* rows of the actions table written by this handler
    media_sent,        \* media payloads handed to the transport
    replies,           \* final replies delivered to the user
    chain_outcome,     \* "none", "running", "returned" or "raised"
    \* two messages of one conversation, each in its own handler task
    hpc,               \* position of the handler of each message
    hstep,             \* step counter of each handler's chain
    heffects,          \* store writes, reasoning calls and tool dispatches
                       \* made so far for each message
    \* one message of any kind from any user
    sender,            \* message.from_user.id
    kind,              \* "text", "document", "photo" or "voice"
    apc,               \* position of the handler the router has chosen
    aplain,            \* the handler answers without a tool chain
    astep,             \* step counter of the handler's chain
    alog,              \* downloads, transcriptions, store writes, reasoning
                       \* calls and tool dispatches made for the message
    \* one call of a function of brain.py on a text
    fpc,               \* "idle", "call" or "return"
    ftext,             \* the argument: a sequence of characters
    fresult,           \* the value returned
    \* main, the cognition loop and the watchdog
    mpc,               \* position of main()
    spc,               \* position of each coroutine that stops components
    cog_running,       \* CognitionLoop._running
    cog_task,          \* CognitionLoop._task: "none", "live" or "done"
    cog_live,          \* loop tasks that are pending and not cancelled
    tick_count,        \* CognitionLoop._tick_count
    wd_running,        \* Watchdog._running
    wpc,               \* position of the task of Watchdog._monitor
    restart_count,     \* Watchdog._restart_count
    wd_last,           \* what the latest health check did about the loop
    \* the knowledge table and the coroutines calling store_knowledge
    knowledge,         \* rows of the knowledge table, in rowid order
    kqueue,            \* calls holding or waiting for Memory._lock, in order
    klog               \* the calls that have ended, in order

thinkVars == <<attempt, raw, outcomes, think_outcome, initial_decision,
               context_reads, messages, temperature, requests>>

\* reasoning-service calls made by this think()
calls == Len(outcomes)

chainVars == <<decision, follow_decision, should_continue, chain_context,
               step, status_msg, tool_result, reflect_messages>>

effectVars == <<dispatches, reflections, reflect_calls, message_rows,
                action_rows, media_sent, replies, chain_outcome>>

concVars == <<hpc, hstep, heffects>>

handlerVars == <<pc, thinkVars, final_response, chainVars, effectVars>>

authVars == <<sender, kind, apc, aplain, astep, alog>>

fnVars == <<fpc, ftext, fresult>>

lifeVars == <<mpc, spc, cog_running, cog_task, cog_live, tick_count,
              wd_running, wpc, restart_count, wd_last>>

knowVars == <<knowledge, kqueue, klog>>

vars == <<handlerVars, concVars, authVars, fnVars, lifeVars, knowVars>>

\* shutdown() runs as a task made by the signal handler and in the finally
\* clause of main (main.py 114-138); "owner" is any other caller of
\* CognitionLoop.stop
Stoppers == {"signal", "finally", "owner"}

\* nothing constructed yet
InitLifeRest ==
    /\ mpc = "idle"
    /\ spc = [s \in Stoppers |-> "idle"]
    /\ cog_running = FALSE
    /\ cog_task = "none"
    /\ cog_live = 0
    /\ tick_count = 0
    /\ wd_running = FALSE
    /\ wpc = "none"
    /\ restart_count = 0
    /\ wd_last = "none"

\* an empty table and no call under way
InitKnowRest ==
    /\ knowledge = <<>>
    /\ kqueue = <<>>
    /\ klog = <<>>

\* the two messages whose handlers are followed
Handlers == {1, 2}

InitHandlers ==
    /\ hpc = [h \in Handlers |-> "waiting"]
    /\ hstep = [h \in Handlers |-> 0]
    /\ heffects = [h \in Handlers |-> 0]
    /\ sender = 0
    /\ kind = "none"
    /\ apc = "waiting"
    /\ aplain = FALSE
    /\ astep = 0
    /\ alog = <<>>
    /\ fpc = "idle"
    /\ ftext = <<>>
    /\ fresult = Undef
    /\ InitLifeRest
    /\ InitKnowRest

InitLocals ==
    /\ attempt = 0
    /\ raw = <<>>
    /\ outcomes = <<>>
    /\ think_outcome = "none"
    /\ initial_decision = Undef
    /\ context_reads = 0
    /\ messages = <<>>
    /\ temperature = 0
    /\ requests = <<>>
    /\ final_response = Undef
    /\ decision = Undef
    /\ follow_decision = Undef
    /\ should_continue = Undef
    /\ chain_context = <<>>
    /\ step = 0
    /\ status_msg = FALSE
    /\ tool_result = Undef
    /\ reflect_messages = Undef
    /\ dispatches = 0
    /\ reflections = 0
    /\ reflect_calls = 0
    /\ message_rows = <<>>
    /\ action_rows = <<>>
    /\ media_sent = <<>>
    /\ replies = <<>>
    /\ chain_outcome = "none"

Init == pc = "idle" /\ InitLocals /\ InitHandlers

\* ------------------------------------------------------------------------
\* Brain.think
\* ------------------------------------------------------------------------

\* lines 496-500: only absent keys are filled in
Normalize(d) ==
    SetDefault(SetDefault(SetDefault(SetDefault(SetDefault(d,
        "thought", Str("")),
        "action", Str("none")),
        "parameters", EmptyMap),
        "response", Str("I processed your request.")),
        "continue", Bool(FALSE))

\* the final fallback wrapping the raw text without stripping the tags
FallbackDecision_unstripped(r) ==
    MkDict(Str("Response was not in JSON format after retries."),
           Str("none"), EmptyMap,
           IF r # <<>> THEN Str(Render(r))
           ELSE Str("I processed your request but couldn't format the response properly."),
           Bool(FALSE))

\* lines 509-516
FallbackDecision(r) ==
    LET cleaned == _strip_thinking_tags(r)
    IN  MkDict(Str("Response was not in JSON format after retries."),
               Str("none"), EmptyMap,
               IF cleaned # <<>> THEN Str(Render(cleaned))
               ELSE Str("I processed your request but couldn't format the response properly."),
               Bool(FALSE))

\* lines 521-527
ErrorDecision ==
    MkDict(Str("Error occurred"), Str("none"), EmptyMap,
           Str("I encountered an error while processing"), Bool(FALSE))

\* lines 529-535
UnexpectedFlowDecision ==
    MkDict(Str("Unexpected flow."), Str("none"), EmptyMap,
           Str("Something went wrong. Please try again."), Bool(FALSE))

\* `return d` from think()
ThinkReturn(d) ==
    /\ initial_decision' = d
    /\ think_outcome' = "returned"
    /\ pc' = "think_ret"
    /\ UNCHANGED attempt

\* the except clause, lines 518-527
ThinkExcept ==
    IF attempt = MAX_RETRIES - 1
    THEN ThinkReturn(ErrorDecision)
    ELSE /\ attempt' = attempt + 1
         /\ UNCHANGED <<initial_decision, think_outcome, pc>>

\* a message of the chat-completion request
Message(role, content) == [role |-> role, content |-> content]

\* what get_context_bundle may return: the stored history and actions
ContextBundles ==
    { [messages |-> <<>>, actions |-> <<>>],
      [messages |-> <<Message("user", "earlier"), Message("tool", "log")>>,
       actions  |-> <<"execute_cmd">>] }

\* lines 413-443: system prompt, history with unknown roles mapped to
\* "user", summary of the recent actions, the current user message
BuildMessages(bundle) ==
    <<Message("system", "prompt")>>
    \o [i \in 1..Len(bundle.messages) |->
          Message(IF bundle.messages[i].role \in {"user", "assistant", "system"}
                  THEN bundle.messages[i].role ELSE "user",
                  bundle.messages[i].content)]
    \o (IF bundle.actions # <<>>
        THEN <<Message("system", "recent actions")>> ELSE <<>>)
    \o <<Message("user", "user_text")>>

\* lines 369-392: what _classify_task may answer
TaskTypes == {"creative", "precise", "balanced"}

\* temperatures are counted in tenths
CREATIVE_TEMPERATURE == 7

PRECISE_TEMPERATURE == 2

BALANCED_TEMPERATURE == 5

TEMPERATURE_FLOOR == 1

TEMPERATURE_DECREMENT == 2

\* lines 446-452
BaseTemperature(task_type) ==
    IF task_type = "creative" THEN CREATIVE_TEMPERATURE
    ELSE IF task_type = "precise" THEN PRECISE_TEMPERATURE
    ELSE BALANCED_TEMPERATURE

Max(a, b) == IF a >= b THEN a ELSE b

\* the retry temperature lowered without a floor
EffectiveTemperature_unfloored(base, k) ==
    IF k > 0 THEN base - TEMPERATURE_DECREMENT * k ELSE base

\* lines 457 and 461-463: current_temp of attempt k
EffectiveTemperature(base, k) ==
    IF k > 0 THEN Max(TEMPERATURE_FLOOR, base - TEMPERATURE_DECREMENT * k)
    ELSE base

\* lines 464-473
CorrectiveMessage == Message("user", "previous response was not valid JSON")

\* the corrective messages of all earlier attempts kept in the list
CallMessages_accumulating(base, k) ==
    base \o [i \in 1..k |-> CorrectiveMessage]

\* lines 458-475: extra_messages starts empty in every attempt;
\* call_messages = messages + extra_messages is a new list
CallMessages(base, k) ==
    base \o (IF k > 0 THEN <<CorrectiveMessage>> ELSE <<>>)

\* lines 406-452: the context bundle is read before the try block, then
\* the message list is built and the temperature selected
ThinkContext ==
    /\ pc = "think_ctx"
    /\ context_reads' = context_reads + 1
    /\ \/ \E bundle \in ContextBundles, task_type \in TaskTypes :
            /\ messages' = BuildMessages(bundle)  \* the five store reads return
            /\ temperature' = BaseTemperature(task_type)
            /\ pc' = "think_loop"
            /\ UNCHANGED think_outcome
       \/ /\ think_outcome' = "raised"   \* a store read raises (sqlite3.Error)
          /\ pc' = "except"
          /\ UNCHANGED <<messages, temperature>>
    /\ attempt' = 0
    /\ UNCHANGED <<raw, outcomes, requests, initial_decision, final_response,
                   chainVars, effectVars>>
    /\ UNCHANGED concVars
    /\ UNCHANGED authVars
    /\ UNCHANGED fnVars
    /\ UNCHANGED lifeVars
    /\ UNCHANGED knowVars

\* what one reasoning call gave, as think() sees it
OutcomeOf(d) ==
    IF d = None THEN "unparseable"
    ELSE IF d.t = "obj" THEN "object"
    ELSE "nonobject"

\* one iteration of the retry loop, lines 455-535
ThinkAttempt(Recs) ==
    /\ pc = "think_loop"
    /\ IF attempt >= MAX_RETRIES
       THEN /\ ThinkReturn(UnexpectedFlowDecision)
            /\ UNCHANGED <<raw, outcomes, requests>>
       ELSE /\ requests' = Append(requests,
                   [messages    |-> CallMessages(messages, attempt),
                    temperature |-> EffectiveTemperature(temperature, attempt)])
            /\ \/ /\ ThinkExcept            \* the service call raises
                  /\ outcomes' = Append(outcomes, "exc")
                  /\ UNCHANGED raw
               \/ \E r \in RawOutputs(Recs) :
                 LET d == _extract_json(r)
                 IN  /\ raw' = r
                     /\ outcomes' = Append(outcomes, OutcomeOf(d))
                     /\ IF d # None
                        THEN IF d.t = "obj"
                             THEN ThinkReturn(Normalize(d.d))
                             ELSE ThinkExcept  \* decision.get: AttributeError
                        ELSE IF attempt < MAX_RETRIES - 1
                             THEN /\ attempt' = attempt + 1
                                  /\ UNCHANGED <<initial_decision,
                                                 think_outcome, pc>>
                             ELSE ThinkReturn(FallbackDecision(r))
    /\ UNCHANGED <<context_reads, messages, temperature, final_response,
                   chainVars, effectVars>>
    /\ UNCHANGED concVars
    /\ UNCHANGED authVars
    /\ UNCHANGED fnVars
    /\ UNCHANGED lifeVars
    /\ UNCHANGED knowVars

\* Brain.think on its own, for every record the extractor can produce
InitThink == pc = "think_ctx" /\ InitLocals /\ InitHandlers

NextThink == ThinkContext \/ ThinkAttempt(ThinkRecords)

SpecThink == InitThink /\ [][NextThink]_vars

\* ------------------------------------------------------------------------
\* tools.py: ToolResult and dispatch_tool
\* ------------------------------------------------------------------------

ToolResult(ok, out, err, rc, img, file) ==
    [success |-> ok, stdout |-> out, stderr |-> err, return_code |-> rc,
     image_path |-> img, file_path |-> file]

TOOL_MAP == {"execute_cmd"}

\* what a tool function may return; its failures are those of line 2879
ToolReturns ==
    { ToolResult(TRUE, "out", "", 0, "", ""),
      ToolResult(TRUE, "", "", 0, "shot.png", ""),
      ToolResult(TRUE, "out", "", 0, "", "doc.txt") }

UnknownToolResult == ToolResult(FALSE, "", "Unknown tool", 1, "", "")

ToolErrorResult == ToolResult(FALSE, "", "Tool execution error", 1, "", "")

\* the results dispatch_tool(action, parameters) may return; the empty set
\* when it raises instead (`action not in TOOL_MAP` hashes action)
dispatch_tool(action, parameters) ==
    IF ~Hashable(action) THEN {}
    ELSE IF ~(action.t = "str" /\ action.v \in TOOL_MAP) THEN {UnknownToolResult}
    ELSE IF parameters.t # "map" THEN {ToolErrorResult}  \* parameters.items()
    ELSE ToolReturns \cup {ToolErrorResult}

\* ------------------------------------------------------------------------
\* Brain.process_tool_result
\* ------------------------------------------------------------------------

\* lines 603-616
LocalSummary(tr) ==
    MkDict(Str("Fallback summary due to API error."), Str("none"), EmptyMap,
           IF tr.stdout # "" THEN Str(tr.stdout)
           ELSE IF tr.stderr # "" THEN Str("Error: " \o tr.stderr)
           ELSE Str("Command completed with return code."),
           Bool(FALSE))

\* lines 592-599
CleanedSummary(r) ==
    LET cleaned == _strip_thinking_tags(r)
    IN  MkDict(Str("Summarizing tool output."), Str("none"), EmptyMap,
               IF cleaned # <<>> THEN Str(Render(cleaned))
               ELSE Str("Tool executed successfully."),
               Bool(FALSE))

\* a reflection that keeps a record without a response and fills it in
process_tool_result_fill_response(exc, r, tr) ==
    LET result == _extract_json(r)
    IN  IF exc THEN LocalSummary(tr)
        ELSE IF ~Truthy(result) THEN CleanedSummary(r)
        ELSE IF result.t \in {"num", "bool"} THEN LocalSummary(tr)
        ELSE IF result.t = "obj"
        THEN SetDefault(SetDefault(SetDefault(SetDefault(result.d,
                 "response", Str("Tool executed successfully.")),
                 "action", Str("none")),
                 "parameters", EmptyMap),
                 "continue", Bool(FALSE))
        ELSE CleanedSummary(r)

\* the Decision returned when the service call raises (exc) or returns r
process_tool_result(exc, r, tr) ==
    LET result == _extract_json(r)
    IN  IF exc THEN LocalSummary(tr)
        ELSE IF ~Truthy(result) THEN CleanedSummary(r)
        \* `"response" in result`: TypeError on a number, caught at line 601
        ELSE IF result.t \in {"num", "bool"} THEN LocalSummary(tr)
        ELSE IF result.t = "obj" /\ "response" \in DOMAIN result.d
        THEN SetDefault(SetDefault(SetDefault(result.d,
                 "action", Str("none")),
                 "parameters", EmptyMap),
                 "continue", Bool(FALSE))
        ELSE CleanedSummary(r)

\* ------------------------------------------------------------------------
\* telegram_handler.py: handle_text_message
\* ------------------------------------------------------------------------

\* the action test without its truthiness half (`action != "none"` only)
Dispatchable_not_none(action) == action # Str("none")

\* `action and action != "none"`
Dispatchable(action) == Truthy(action) /\ action # Str("none")

\* lines 273-283: authorization check and empty-text check
Receive ==
    /\ pc = "idle"
    /\ \E authorized \in BOOLEAN, empty \in BOOLEAN :
         IF ~authorized
         THEN /\ replies' = Append(replies, [kind |-> "denied", text |-> Str("Access denied")])
              /\ pc' = "denied"
         ELSE IF empty
         THEN /\ pc' = "ignored"
              /\ UNCHANGED replies
         ELSE /\ pc' = "store_user"
              /\ UNCHANGED replies
    /\ UNCHANGED <<thinkVars, final_response, chainVars, dispatches,
                   reflections, reflect_calls, message_rows, action_rows, media_sent,
                   chain_outcome>>
    /\ UNCHANGED concVars
    /\ UNCHANGED authVars
    /\ UNCHANGED fnVars
    /\ UNCHANGED lifeVars
    /\ UNCHANGED knowVars

\* a table that keeps the latest message only
InsertMessage_latest_only(rows, role) == <<role>>

\* memory.py lines 129-141: INSERT INTO messages ... ; commit
InsertMessage(rows, role) == Append(rows, role)

\* lines 288-293: store_message(role="user"), before the try block
StoreUserMessage ==
    /\ pc = "store_user"
    /\ \/ /\ message_rows' = InsertMessage(message_rows, "user")
          /\ pc' = "typing"
       \/ /\ pc' = "raised"           \* sqlite3.Error leaves the handler
          /\ UNCHANGED message_rows
    /\ UNCHANGED <<thinkVars, final_response, chainVars, dispatches,
                   reflections, reflect_calls, action_rows, media_sent, replies,
                   chain_outcome>>
    /\ UNCHANGED concVars
    /\ UNCHANGED authVars
    /\ UNCHANGED fnVars
    /\ UNCHANGED lifeVars
    /\ UNCHANGED knowVars

\* line 296: typing indicator, then think() is entered
SendTyping ==
    /\ pc = "typing"
    /\ pc' = "think_ctx"
    /\ UNCHANGED <<thinkVars, final_response, chainVars, effectVars>>
    /\ UNCHANGED concVars
    /\ UNCHANGED authVars
    /\ UNCHANGED fnVars
    /\ UNCHANGED lifeVars
    /\ UNCHANGED knowVars

\* LoopHead with the ceiling tested one step too late (step <= MAX)
LoopHead_off_by_one(d, st) ==
    /\ decision' = d
    /\ IF st <= MAX_CHAIN_STEPS
       THEN /\ should_continue' = Get(d, "continue", Bool(FALSE))
            /\ IF Truthy(Get(d, "action", Str("none")))
                  /\ Get(d, "action", Str("none")) # Str("none")
               THEN step' = st + 1 /\ pc' = "dispatch"
               ELSE step' = st /\ pc' = "chain_done"
       ELSE /\ pc' = "chain_done"
            /\ UNCHANGED <<should_continue, step>>

\* LoopHead that does not leave the loop at the ceiling but spins in it
LoopHead_spin(d, st) ==
    /\ decision' = d
    /\ IF st < MAX_CHAIN_STEPS
       THEN /\ should_continue' = Get(d, "continue", Bool(FALSE))
            /\ IF Truthy(Get(d, "action", Str("none")))
                  /\ Get(d, "action", Str("none")) # Str("none")
               THEN step' = st + 1 /\ pc' = "dispatch"
               ELSE step' = st /\ pc' = "chain_done"
       ELSE /\ pc' = "chain_loop"
            /\ UNCHANGED <<should_continue, step>>

\* LoopHead that treats the ceiling as an error
LoopHead_ceiling_error(d, st) ==
    /\ decision' = d
    /\ IF st < MAX_CHAIN_STEPS
       THEN /\ should_continue' = Get(d, "continue", Bool(FALSE))
            /\ IF Truthy(Get(d, "action", Str("none")))
                  /\ Get(d, "action", Str("none")) # Str("none")
               THEN step' = st + 1 /\ pc' = "dispatch"
               ELSE step' = st /\ pc' = "chain_done"
       ELSE /\ pc' = "except"
            /\ UNCHANGED <<should_continue, step>>

\* LoopHead that reads the continue flag once, from the initial Decision
LoopHead_first_flag(d, st) ==
    /\ decision' = d
    /\ IF st < MAX_CHAIN_STEPS
       THEN /\ should_continue' = IF st = 0
                                  THEN Get(d, "continue", Bool(FALSE))
                                  ELSE should_continue
            /\ IF Truthy(Get(d, "action", Str("none")))
                  /\ Get(d, "action", Str("none")) # Str("none")
               THEN step' = st + 1 /\ pc' = "dispatch"
               ELSE step' = st /\ pc' = "chain_done"
       ELSE /\ pc' = "chain_done"
            /\ UNCHANGED <<should_continue, step>>

\* lines 186-203: the while test, the action test and the step increment,
\* run without suspension up to the status message of the next step
LoopHead(d, st) ==
    /\ decision' = d
    /\ IF st < MAX_CHAIN_STEPS
       THEN /\ should_continue' = Get(d, "continue", Bool(FALSE))
            /\ IF Dispatchable(Get(d, "action", Str("none")))
               THEN step' = st + 1 /\ pc' = "dispatch"
               ELSE step' = st /\ pc' = "chain_done"
       ELSE /\ pc' = "chain_done"
            /\ UNCHANGED <<should_continue, step>>

\* lines 301-323: the initial Decision selects the chain or a plain reply;
\* lines 180-184: the chain's locals are set up
AfterThink ==
    /\ pc = "think_ret"
    /\ attempt' = 0
    /\ raw' = <<>>
    /\ initial_decision' = SetItem(initial_decision, "_original_message", Str("user_text"))
    /\ outcomes' = <<>>
    /\ context_reads' = 0
    /\ messages' = <<>>
    /\ temperature' = 0
    /\ requests' = <<>>
    /\ UNCHANGED think_outcome
    /\ final_response' = Get(initial_decision, "response", Str(""))
    /\ IF Dispatchable(Get(initial_decision, "action", Str("none")))
       THEN /\ LoopHead(initial_decision', 0)
            /\ chain_outcome' = "running"
       ELSE /\ pc' = "store_assistant"
            /\ UNCHANGED <<decision, should_continue, step, chain_outcome>>
    /\ UNCHANGED <<follow_decision, chain_context, status_msg, tool_result,
                   reflect_messages, dispatches, reflections, reflect_calls, message_rows, action_rows,
                   media_sent, replies>>
    /\ UNCHANGED concVars
    /\ UNCHANGED authVars
    /\ UNCHANGED fnVars
    /\ UNCHANGED lifeVars
    /\ UNCHANGED knowVars

\* lines 326: store_message(role="assistant", content=final_response)
StoreAssistantMessage ==
    /\ pc = "store_assistant"
    /\ \/ /\ final_response.t = "str"
          /\ message_rows' = InsertMessage(message_rows, "assistant")
          /\ pc' = "safe_reply"
       \/ /\ pc' = "except"           \* sqlite3.Error, or content is no str
          /\ UNCHANGED message_rows
    /\ UNCHANGED <<thinkVars, final_response, chainVars, dispatches,
                   reflections, reflect_calls, action_rows, media_sent, replies,
                   chain_outcome>>
    /\ UNCHANGED concVars
    /\ UNCHANGED authVars
    /\ UNCHANGED fnVars
    /\ UNCHANGED lifeVars
    /\ UNCHANGED knowVars

\* lines 75-88 and 329
safe_reply ==
    /\ pc = "safe_reply"
    /\ IF Truthy(final_response) /\ final_response.t # "str"
       THEN /\ pc' = "except"         \* text.strip(): AttributeError
            /\ UNCHANGED replies
       ELSE /\ replies' = Append(replies,
                   [kind |-> "final",
                    text |-> IF Truthy(final_response) THEN final_response
                             ELSE Str("Done.")])
            /\ pc' = "done"
    /\ UNCHANGED <<thinkVars, final_response, chainVars, dispatches,
                   reflections, reflect_calls, message_rows, action_rows, media_sent,
                   chain_outcome>>
    /\ UNCHANGED concVars
    /\ UNCHANGED authVars
    /\ UNCHANGED fnVars
    /\ UNCHANGED lifeVars
    /\ UNCHANGED knowVars

\* lines 331-337: the except clause replies with the error text
ErrorReply ==
    /\ pc = "except"
    /\ replies' = Append(replies, [kind |-> "error", text |-> Str("An error occurred")])
    /\ pc' = "done"
    /\ UNCHANGED <<thinkVars, final_response, chainVars, dispatches,
                   reflections, reflect_calls, message_rows, action_rows, media_sent,
                   chain_outcome>>
    /\ UNCHANGED concVars
    /\ UNCHANGED authVars
    /\ UNCHANGED fnVars
    /\ UNCHANGED lifeVars
    /\ UNCHANGED knowVars

\* ------------------------------------------------------------------------
\* telegram_handler.py: execute_tool_chain
\* ------------------------------------------------------------------------

\* execute_tool_chain is left, by return or by an exception: its locals end
ChainLocalsEnd ==
    /\ decision' = Undef
    /\ follow_decision' = Undef
    /\ should_continue' = Undef
    /\ tool_result' = Undef
    /\ reflect_messages' = Undef

\* a ChainStep numbered from zero
ChainStep_zero_based(st, action, parameters, tr) ==
    [step |-> st - 1, action |-> action, parameters |-> parameters,
     success |-> tr.success,
     output |-> IF tr.stdout # "" THEN tr.stdout ELSE tr.stderr]

\* lines 209-215: the entry appended to chain_context
ChainStep(st, action, parameters, tr) ==
    [step |-> st, action |-> action, parameters |-> parameters,
     success |-> tr.success,
     output |-> IF tr.stdout # "" THEN tr.stdout ELSE tr.stderr]

\* lines 195-215: status message, dispatch_tool, append to chain_context
Dispatch ==
    /\ pc = "dispatch"
    /\ status_msg' = TRUE
    /\ dispatches' = dispatches + 1
    /\ LET action     == Get(decision, "action", Str("none"))
           parameters == Get(decision, "parameters", EmptyMap)
           results    == dispatch_tool(action, parameters)
       IN  IF results = {}
           THEN /\ pc' = "except"     \* TypeError reaches the handler
                /\ chain_outcome' = "raised"
                /\ ChainLocalsEnd
                /\ UNCHANGED chain_context
           ELSE \E tr \in results :
                  /\ tool_result' = tr
                  /\ UNCHANGED <<decision, follow_decision, should_continue,
                                 reflect_messages, chain_outcome>>
                  /\ chain_context' = Append(chain_context,
                        ChainStep(step, action, parameters, tr))
                  /\ pc' = "store_action"
    /\ UNCHANGED <<thinkVars, final_response, step, reflections, reflect_calls, message_rows,
                   action_rows, media_sent, replies>>
    /\ UNCHANGED concVars
    /\ UNCHANGED authVars
    /\ UNCHANGED fnVars
    /\ UNCHANGED lifeVars
    /\ UNCHANGED knowVars

\* an actions table that hands back the newest row first
InsertAction_newest_first(rows, row) == <<row>> \o rows

\* memory.py lines 186-199: INSERT and commit; the rows of the table are
\* kept in insertion (rowid) order
InsertAction(rows, row) == Append(rows, row)

\* lines 217-225: _memory.store_action
StoreAction ==
    /\ pc = "store_action"
    /\ \/ /\ action_rows' = InsertAction(action_rows,
                [action_type |-> Get(decision, "action", Str("none")),
                 success |-> tool_result.success])
          /\ pc' = "media"
          /\ UNCHANGED <<decision, follow_decision, should_continue,
                         tool_result, reflect_messages, chain_outcome>>
       \/ /\ pc' = "except"           \* sqlite3.Error reaches the handler
          /\ chain_outcome' = "raised"
          /\ ChainLocalsEnd
          /\ UNCHANGED action_rows
    /\ UNCHANGED <<thinkVars, final_response, chain_context, step, status_msg,
                   dispatches, reflections, reflect_calls, message_rows, media_sent, replies>>
    /\ UNCHANGED concVars
    /\ UNCHANGED authVars
    /\ UNCHANGED fnVars
    /\ UNCHANGED lifeVars
    /\ UNCHANGED knowVars

\* the media of a ToolResult without its document
MediaOf_images_only(tr) ==
    IF tr.image_path # "" /\ tr.success THEN <<tr.image_path>> ELSE <<>>

\* lines 227-235: the photo, then the document, of a successful result
MediaOf(tr) ==
    LET img == IF tr.image_path # "" /\ tr.success
               THEN <<tr.image_path>> ELSE <<>>
        doc == IF tr.file_path # "" /\ tr.success
               THEN <<tr.file_path>> ELSE <<>>
    IN  img \o doc

\* lines 227-235: a produced image or file is sent at once
SendMedia ==
    /\ pc = "media"
    /\ media_sent' = media_sent \o MediaOf(tool_result)
    /\ pc' = "reflect_req"
    /\ UNCHANGED <<thinkVars, final_response, chainVars, dispatches,
                   reflections, reflect_calls, message_rows, action_rows, replies,
                   chain_outcome>>
    /\ UNCHANGED concVars
    /\ UNCHANGED authVars
    /\ UNCHANGED fnVars
    /\ UNCHANGED lifeVars
    /\ UNCHANGED knowVars

\* line 566: the decision without its keys that start with "_"
CleanDecision(d) ==
    [k \in {f \in DOMAIN d : f # "_original_message"} |-> d[k]]

\* lines 543-553: the outcome of the tool that has just run
ToolOutput(d, tr) ==
    [action |-> d["action"], success |-> tr.success,
     return_code |-> tr.return_code, stdout |-> tr.stdout,
     stderr |-> tr.stderr]

\* lines 567-572: system prompt (built without the context bundle), the
\* original user message, the decision that asked for the tool, the
\* follow-up message holding the tool output
ReflectMessages(d, tr) ==
    [system    |-> "prompt",
     user      |-> Get(d, "_original_message", Str("")),
     assistant |-> CleanDecision(d),
     followup  |-> ToolOutput(d, tr)]

\* lines 543-572 of process_tool_result: the request is built from the
\* decision and the ToolResult of the current step
ReflectRequest ==
    /\ pc = "reflect_req"
    /\ reflect_messages' = ReflectMessages(decision, tool_result)
    /\ pc' = "reflect"
    /\ UNCHANGED <<thinkVars, final_response, decision, follow_decision,
                   should_continue, chain_context, step, status_msg,
                   tool_result, effectVars>>
    /\ UNCHANGED concVars
    /\ UNCHANGED authVars
    /\ UNCHANGED fnVars
    /\ UNCHANGED lifeVars
    /\ UNCHANGED knowVars

\* the ChainStep outcomes a reflection request shows to the model: the one
\* rendered in the follow-up message
StepsShown(m) ==
    <<[action  |-> m.followup.action,
       success |-> m.followup.success,
       output  |-> IF m.followup.stdout # "" THEN m.followup.stdout
                   ELSE m.followup.stderr]>>

\* a process_tool_result that calls the service again after an error
ReflectAttempts_retrying(exc) == IF exc THEN MAX_RETRIES ELSE 1

\* lines 574-580: the reasoning call stands outside any loop
ReflectAttempts(exc) == 1

\* the continuation test consulting the reflected continue flag only
WantsNext_reflected_only(follow, should) ==
    /\ Dispatchable(Get(follow, "action", Str("none")))
    /\ Truthy(Get(follow, "continue", Bool(FALSE)))

\* the continuation test that gives up after a failed tool
WantsNext_on_success(follow, should) ==
    /\ Dispatchable(Get(follow, "action", Str("none")))
    /\ Truthy(Get(follow, "continue", Bool(FALSE))) \/ Truthy(should)
    /\ tool_result.success

\* line 246: the continuation test
WantsNext(follow, should) ==
    /\ Dispatchable(Get(follow, "action", Str("none")))
    /\ Truthy(Get(follow, "continue", Bool(FALSE))) \/ Truthy(should)

\* a chain that keeps the response it started with
LatestResponse_keep_first(follow, previous) == previous

\* line 240: final_response = follow_decision.get("response", final_response)
LatestResponse(follow, previous) == Get(follow, "response", previous)

\* lines 574-616 of process_tool_result and lines 237-256 of the chain:
\* the reasoning call, the returned Decision, the continuation test
Reflect(Recs) ==
    /\ pc = "reflect"
    /\ reflections' = reflections + 1
    /\ reflect_messages' = Undef
    /\ \E exc \in BOOLEAN, r \in RawOutputs(Recs) :
         /\ exc => r = <<>>
         /\ reflect_calls' = reflect_calls + ReflectAttempts(exc)
         /\ LET follow == process_tool_result(exc, r, tool_result)
            IN  /\ final_response' = LatestResponse(follow, final_response)
                /\ IF WantsNext(follow, should_continue)
                   THEN /\ follow_decision' = SetItem(follow, "_original_message", Str("user_text"))
                        /\ LoopHead(follow_decision', step)
                   ELSE /\ follow_decision' = follow
                        /\ pc' = "chain_done"
                        /\ UNCHANGED <<decision, should_continue, step>>
    /\ UNCHANGED <<thinkVars, chain_context, status_msg, tool_result,
                   dispatches, message_rows, action_rows, media_sent, replies,
                   chain_outcome>>
    /\ UNCHANGED concVars
    /\ UNCHANGED authVars
    /\ UNCHANGED fnVars
    /\ UNCHANGED lifeVars
    /\ UNCHANGED knowVars

\* lines 258-265 and 311-319: the status message is deleted, the chain
\* returns, and the handler appends the step summary to a multi-step reply
ChainReturn ==
    /\ pc = "chain_done"
    /\ status_msg' = FALSE
    /\ IF Len(chain_context) > 1
       THEN IF final_response.t = "str"
            THEN /\ final_response' = Str(final_response.v \o " [steps]")
                 /\ pc' = "store_assistant"
            ELSE /\ pc' = "except"    \* final_response += str: TypeError
                 /\ UNCHANGED final_response
       ELSE /\ pc' = "store_assistant"
            /\ UNCHANGED final_response
    /\ ChainLocalsEnd
    /\ chain_outcome' = "returned"
    /\ UNCHANGED <<thinkVars, chain_context, step, dispatches, reflections, reflect_calls,
                   message_rows, action_rows, media_sent, replies>>
    /\ UNCHANGED concVars
    /\ UNCHANGED authVars
    /\ UNCHANGED fnVars
    /\ UNCHANGED lifeVars
    /\ UNCHANGED knowVars

\* the ToolResults process_tool_result is run on: with and without
\* stdout, stderr and media
ReflectToolResults ==
    ToolReturns
    \cup { UnknownToolResult, ToolErrorResult,
           ToolResult(FALSE, "partial", "failed", 1, "", "") }

\* Brain.process_tool_result on its own: the decision that asked for the
\* tool, a ToolResult, and a reasoning call that raised (outcomes = "exc")
\* or returned the text raw
InitReflect ==
    /\ pc = "process_tool_result"
    /\ decision = SetItem(SampleRecord, "_original_message", Str("user_text"))
    /\ tool_result \in ReflectToolResults
    /\ raw \in RawOutputs(ThinkRecords)
    /\ outcomes \in {<<"exc">>, <<OutcomeOf(_extract_json(raw))>>}
    /\ outcomes = <<"exc">> => raw = <<>>
    /\ attempt = 0
    /\ think_outcome = "none"
    /\ initial_decision = Undef
    /\ context_reads = 0
    /\ messages = <<>>
    /\ temperature = 0
    /\ requests = <<>>
    /\ final_response = Undef
    /\ follow_decision = Undef
    /\ should_continue = Undef
    /\ chain_context = <<>>
    /\ step = 0
    /\ status_msg = FALSE
    /\ reflect_messages = ReflectMessages(decision, tool_result)
    /\ dispatches = 0
    /\ reflections = 0
    /\ reflect_calls = 0
    /\ message_rows = <<>>
    /\ action_rows = <<>>
    /\ media_sent = <<>>
    /\ replies = <<>>
    /\ chain_outcome = "none"
    /\ InitHandlers

\* lines 574-616: the call has raised or returned; the Decision is returned
ProcessToolResult ==
    /\ pc = "process_tool_result"
    /\ follow_decision' =
         process_tool_result(outcomes = <<"exc">>, raw, tool_result)
    /\ reflections' = reflections + 1
    /\ reflect_calls' = reflect_calls + ReflectAttempts(outcomes = <<"exc">>)
    /\ pc' = "process_tool_result_ret"
    /\ UNCHANGED <<thinkVars, final_response, decision, should_continue,
                   chain_context, step, status_msg, tool_result,
                   reflect_messages, dispatches, message_rows, action_rows,
                   media_sent, replies, chain_outcome>>
    /\ UNCHANGED concVars
    /\ UNCHANGED authVars
    /\ UNCHANGED fnVars
    /\ UNCHANGED lifeVars
    /\ UNCHANGED knowVars

SpecReflect == InitReflect /\ [][ProcessToolResult]_vars

\* ------------------------------------------------------------------------
\* Two messages of one conversation (main.py, telegram_handler.py)
\* ------------------------------------------------------------------------

\* Each handler is followed from one suspension point to the next, by its
\* control flow only.  main.py line 132 starts the polling with the
\* dispatcher's defaults: every update is handed to handle_text_message in
\* a task of its own, and the handlers hold no lock and no queue, so the
\* tasks interleave at their awaits.  Both messages are non-empty texts of
\* the authorized user.

\* one more store write, reasoning call or tool dispatch for message h
Effect(h) == heffects' = [heffects EXCEPT ![h] = heffects[h] + 1]

\* the update is fetched and its handler task started; updates are fetched
\* in order
HReceive(h) ==
    /\ hpc[h] = "waiting"
    /\ h = 2 => hpc[1] # "waiting"
    /\ hpc' = [hpc EXCEPT ![h] = "store_user"]
    /\ UNCHANGED <<hstep, heffects, handlerVars>>
    /\ UNCHANGED authVars
    /\ UNCHANGED fnVars
    /\ UNCHANGED lifeVars
    /\ UNCHANGED knowVars

\* lines 288-293: await _memory.store_message(role="user")
HStoreUserMessage(h) ==
    /\ hpc[h] = "store_user"
    /\ Effect(h)
    /\ hpc' = [hpc EXCEPT ![h] = "think"]
    /\ UNCHANGED <<hstep, handlerVars>>
    /\ UNCHANGED authVars
    /\ UNCHANGED fnVars
    /\ UNCHANGED lifeVars
    /\ UNCHANGED knowVars

\* lines 296-305 and 186-203: typing indicator, think(), then either the
\* first step of the chain or the plain reply
HThink(h) ==
    /\ hpc[h] = "think"
    /\ Effect(h)
    /\ \E chain \in BOOLEAN :
         IF chain
         THEN /\ hstep' = [hstep EXCEPT ![h] = 1]
              /\ hpc' = [hpc EXCEPT ![h] = "dispatch"]
         ELSE /\ hpc' = [hpc EXCEPT ![h] = "store_assistant"]
              /\ UNCHANGED hstep
    /\ UNCHANGED handlerVars
    /\ UNCHANGED authVars
    /\ UNCHANGED fnVars
    /\ UNCHANGED lifeVars
    /\ UNCHANGED knowVars

\* line 206: await dispatch_tool
HDispatch(h) ==
    /\ hpc[h] = "dispatch"
    /\ Effect(h)
    /\ hpc' = [hpc EXCEPT ![h] = "store_action"]
    /\ UNCHANGED <<hstep, handlerVars>>
    /\ UNCHANGED authVars
    /\ UNCHANGED fnVars
    /\ UNCHANGED lifeVars
    /\ UNCHANGED knowVars

\* lines 218-225: await _memory.store_action
HStoreAction(h) ==
    /\ hpc[h] = "store_action"
    /\ Effect(h)
    /\ hpc' = [hpc EXCEPT ![h] = "reflect"]
    /\ UNCHANGED <<hstep, handlerVars>>
    /\ UNCHANGED authVars
    /\ UNCHANGED fnVars
    /\ UNCHANGED lifeVars
    /\ UNCHANGED knowVars

\* lines 227-256: media, process_tool_result, the continuation test
HReflect(h) ==
    /\ hpc[h] = "reflect"
    /\ Effect(h)
    /\ \E more \in BOOLEAN :
         IF more /\ hstep[h] < MAX_CHAIN_STEPS
         THEN /\ hstep' = [hstep EXCEPT ![h] = hstep[h] + 1]
              /\ hpc' = [hpc EXCEPT ![h] = "dispatch"]
         ELSE /\ hpc' = [hpc EXCEPT ![h] = "store_assistant"]
              /\ UNCHANGED hstep
    /\ UNCHANGED handlerVars
    /\ UNCHANGED authVars
    /\ UNCHANGED fnVars
    /\ UNCHANGED lifeVars
    /\ UNCHANGED knowVars

\* line 326: await _memory.store_message(role="assistant")
HStoreAssistantMessage(h) ==
    /\ hpc[h] = "store_assistant"
    /\ Effect(h)
    /\ hpc' = [hpc EXCEPT ![h] = "safe_reply"]
    /\ UNCHANGED <<hstep, handlerVars>>
    /\ UNCHANGED authVars
    /\ UNCHANGED fnVars
    /\ UNCHANGED lifeVars
    /\ UNCHANGED knowVars

\* line 329: the final response is delivered
HReply(h) ==
    /\ hpc[h] = "safe_reply"
    /\ hpc' = [hpc EXCEPT ![h] = "done"]
    /\ UNCHANGED <<hstep, heffects, handlerVars>>
    /\ UNCHANGED authVars
    /\ UNCHANGED fnVars
    /\ UNCHANGED lifeVars
    /\ UNCHANGED knowVars

NextConcurrent ==
    \/ \E h \in Handlers : HReceive(h)
    \/ \E h \in Handlers : HStoreUserMessage(h)
    \/ \E h \in Handlers : HThink(h)
    \/ \E h \in Handlers : HDispatch(h)
    \/ \E h \in Handlers : HStoreAction(h)
    \/ \E h \in Handlers : HReflect(h)
    \/ \E h \in Handlers : HStoreAssistantMessage(h)
    \/ \E h \in Handlers : HReply(h)

SpecConcurrent == Init /\ [][NextConcurrent]_vars

\* ------------------------------------------------------------------------
\* Authorization in the four message handlers (telegram_handler.py)
\* ------------------------------------------------------------------------

\* Config.AUTHORIZED_USER_ID, as shipped
AUTHORIZED_USER_ID == 0

\* the users that may write to the bot
UserIds == {AUTHORIZED_USER_ID, 1, 2}

\* the router's filters F.text, F.document, F.photo, F.voice
Kinds == {"text", "document", "photo", "voice"}

\* an authorization check that lets everybody in
is_authorized_anyone(user_id) == TRUE

\* lines 44-46
is_authorized(user_id) == user_id = AUTHORIZED_USER_ID

\* an update arrives and the router selects the handler of its kind
AReceive ==
    /\ apc = "waiting"
    /\ \E u \in UserIds, k \in Kinds :
         /\ sender' = u
         /\ kind' = k
    /\ apc' = "authorize"
    /\ UNCHANGED <<aplain, astep, alog, handlerVars, concVars>>
    /\ UNCHANGED fnVars
    /\ UNCHANGED lifeVars
    /\ UNCHANGED knowVars

\* lines 273-283, 345-349, 401-405, 447-451: the check opens every handler;
\* the text handler then drops an empty text, the others fetch the upload
AAuthorize ==
    /\ apc = "authorize"
    /\ IF ~is_authorized(sender)
       THEN apc' = "denied"                 \* message.reply("Access denied")
       ELSE IF kind = "text"
            THEN \E empty \in BOOLEAN :
                   apc' = IF empty THEN "ignored" ELSE "store_user"
            ELSE apc' = "download"
    /\ aplain' = (kind = "photo")
    /\ UNCHANGED <<sender, kind, astep, alog, handlerVars, concVars>>
    /\ UNCHANGED fnVars
    /\ UNCHANGED lifeVars
    /\ UNCHANGED knowVars

\* lines 360-361, 415-416, 461-462: get_file and download_file; a failure
\* is answered by the except clause
ADownload ==
    /\ apc = "download"
    /\ alog' = Append(alog, "download")
    /\ \/ apc' = IF kind = "voice" THEN "transcribe" ELSE "store_user"
       \/ apc' = "except"
    /\ UNCHANGED <<sender, kind, aplain, astep, handlerVars, concVars>>
    /\ UNCHANGED fnVars
    /\ UNCHANGED lifeVars
    /\ UNCHANGED knowVars

\* lines 465-468 and 525-527: transcribe_audio; when it fails the voice
\* handler answers without a chain
ATranscribe ==
    /\ apc = "transcribe"
    /\ alog' = Append(alog, "transcribe")
    /\ \E success \in BOOLEAN : aplain' = ~success
    /\ apc' = "store_user"
    /\ UNCHANGED <<sender, kind, astep, handlerVars, concVars>>
    /\ UNCHANGED fnVars
    /\ UNCHANGED lifeVars
    /\ UNCHANGED knowVars

\* lines 288-293, 363-368, 418-423, 477-483, 529-534; a store error is
\* caught by the except clause, but leaves the text handler, whose first
\* write stands before its try block
AStoreUserMessage ==
    /\ apc = "store_user"
    /\ alog' = Append(alog, "store_write")
    /\ \/ apc' = "think"
       \/ apc' = IF kind = "text" THEN "raised" ELSE "except"
    /\ UNCHANGED <<sender, kind, aplain, astep, handlerVars, concVars>>
    /\ UNCHANGED fnVars
    /\ UNCHANGED lifeVars
    /\ UNCHANGED knowVars

\* lines 300-305, 379-383, 431-432, 487-492, 543-548: think(), then the
\* chain where the handler has one
AThink ==
    /\ apc = "think"
    /\ alog' = Append(alog, "reasoning_call")
    /\ \E chain \in BOOLEAN :
         IF chain /\ ~aplain
         THEN /\ astep' = 1
              /\ apc' = "dispatch"
         ELSE /\ apc' = "store_assistant"
              /\ UNCHANGED astep
    /\ UNCHANGED <<sender, kind, aplain, handlerVars, concVars>>
    /\ UNCHANGED fnVars
    /\ UNCHANGED lifeVars
    /\ UNCHANGED knowVars

\* line 206: await dispatch_tool
ADispatch ==
    /\ apc = "dispatch"
    /\ alog' = Append(alog, "tool_dispatch")
    /\ apc' = "store_action"
    /\ UNCHANGED <<sender, kind, aplain, astep, handlerVars, concVars>>
    /\ UNCHANGED fnVars
    /\ UNCHANGED lifeVars
    /\ UNCHANGED knowVars

\* lines 218-225: await _memory.store_action
AStoreAction ==
    /\ apc = "store_action"
    /\ alog' = Append(alog, "store_write")
    /\ \/ apc' = "reflect"
       \/ apc' = "except"
    /\ UNCHANGED <<sender, kind, aplain, astep, handlerVars, concVars>>
    /\ UNCHANGED fnVars
    /\ UNCHANGED lifeVars
    /\ UNCHANGED knowVars

\* lines 238-256: process_tool_result and the continuation test
AReflect ==
    /\ apc = "reflect"
    /\ alog' = Append(alog, "reasoning_call")
    /\ \E more \in BOOLEAN :
         IF more /\ astep < MAX_CHAIN_STEPS
         THEN /\ astep' = astep + 1
              /\ apc' = "dispatch"
         ELSE /\ apc' = "store_assistant"
              /\ UNCHANGED astep
    /\ UNCHANGED <<sender, kind, aplain, handlerVars, concVars>>
    /\ UNCHANGED fnVars
    /\ UNCHANGED lifeVars
    /\ UNCHANGED knowVars

\* lines 326, 388, 434, 521, 557
AStoreAssistantMessage ==
    /\ apc = "store_assistant"
    /\ alog' = Append(alog, "store_write")
    /\ \/ apc' = "safe_reply"
       \/ apc' = "except"
    /\ UNCHANGED <<sender, kind, aplain, astep, handlerVars, concVars>>
    /\ UNCHANGED fnVars
    /\ UNCHANGED lifeVars
    /\ UNCHANGED knowVars

\* lines 329, 389, 435, 522, 558: the answer; lines 391-393, 437-439,
\* 560-562: the error reply
AReply ==
    /\ apc \in {"safe_reply", "except"}
    /\ apc' = "done"
    /\ UNCHANGED <<sender, kind, aplain, astep, alog, handlerVars, concVars>>
    /\ UNCHANGED fnVars
    /\ UNCHANGED lifeVars
    /\ UNCHANGED knowVars

NextAuth ==
    \/ AReceive
    \/ AAuthorize
    \/ ADownload
    \/ ATranscribe
    \/ AStoreUserMessage
    \/ AThink
    \/ ADispatch
    \/ AStoreAction
    \/ AReflect
    \/ AStoreAssistantMessage
    \/ AReply

SpecAuth == Init /\ [][NextAuth]_vars

\* ------------------------------------------------------------------------
\* Brain._classify_task (brain.py)
\* ------------------------------------------------------------------------

\* A text is a sequence of characters.

\* s in t
IsSubstring(s, t) ==
    \E i \in 1..(Len(t) - Len(s) + 1) : SubSeq(t, i, i + Len(s) - 1) = s

LowerChar(c) ==
    CASE c = "A" -> "a"
      [] c = "B" -> "b"
      [] c = "C" -> "c"
      [] c = "D" -> "d"
      [] c = "E" -> "e"
      [] c = "F" -> "f"
      [] c = "G" -> "g"
      [] c = "H" -> "h"
      [] c = "I" -> "i"
      [] c = "J" -> "j"
      [] c = "K" -> "k"
      [] c = "L" -> "l"
      [] c = "M" -> "m"
      [] c = "N" -> "n"
      [] c = "O" -> "o"
      [] c = "P" -> "p"
      [] c = "Q" -> "q"
      [] c = "R" -> "r"
      [] c = "S" -> "s"
      [] c = "T" -> "t"
      [] c = "U" -> "u"
      [] c = "V" -> "v"
      [] c = "W" -> "w"
      [] c = "X" -> "x"
      [] c = "Y" -> "y"
      [] c = "Z" -> "z"
      [] OTHER -> c

\* str.lower()
Lower(t) == [i \in 1..Len(t) |-> LowerChar(t[i])]

\* lines 374-378
creative_signals ==
    { <<"w", "r", "i", "t", "e">>,
      <<"s", "t", "o", "r", "y">>,
      <<"p", "o", "e", "m">>,
      <<"j", "o", "k", "e">>,
      <<"c", "r", "e", "a", "t", "i", "v", "e">>,
      <<"i", "m", "a", "g", "i", "n", "e">>,
      <<"c", "h", "a", "t">>,
      <<"t", "a", "l", "k">>,
      <<"t", "e", "l", "l", " ", "m", "e">>,
      <<"h", "o", "w", " ", "a", "r", "e", " ", "y", "o", "u">>,
      <<"w", "h", "a", "t", " ", "d", "o", " ", "y", "o", "u", " ", "t", "h", "i", "n", "k">>,
      <<"o", "p", "i", "n", "i", "o", "n">>,
      <<"s", "u", "g", "g", "e", "s", "t">>,
      <<"r", "e", "c", "o", "m", "m", "e", "n", "d">>,
      <<"i", "d", "e", "a">> }

\* lines 383-388
precise_signals ==
    { <<"r", "u", "n">>,
      <<"e", "x", "e", "c", "u", "t", "e">>,
      <<"i", "n", "s", "t", "a", "l", "l">>,
      <<"c", "r", "e", "a", "t", "e", " ", "f", "i", "l", "e">>,
      <<"w", "r", "i", "t", "e", " ", "f", "i", "l", "e">>,
      <<"o", "p", "e", "n">>,
      <<"c", "l", "i", "c", "k">>,
      <<"t", "y", "p", "e">>,
      <<"c", "o", "m", "m", "a", "n", "d">>,
      <<"c", "o", "d", "e">>,
      <<"s", "c", "r", "i", "p", "t">>,
      <<"f", "i", "x">>,
      <<"d", "e", "b", "u", "g">>,
      <<"e", "r", "r", "o", "r">>,
      <<"d", "e", "l", "e", "t", "e">>,
      <<"k", "i", "l", "l">>,
      <<"p", "r", "o", "c", "e", "s", "s">>,
      <<"d", "o", "w", "n", "l", "o", "a", "d">>,
      <<"b", "u", "i", "l", "d">>,
      <<"d", "e", "p", "l", "o", "y">>,
      <<"c", "o", "n", "f", "i", "g", "u", "r", "e">>,
      <<"s", "e", "t", "u", "p">> }

\* a classifier that looks for the precise signals first
_classify_task_precise_first(message) ==
    LET message_lower == Lower(message)
    IN  IF \E signal \in precise_signals : IsSubstring(signal, message_lower)
        THEN "precise"
        ELSE IF \E signal \in creative_signals : IsSubstring(signal, message_lower)
        THEN "creative"
        ELSE "balanced"

\* lines 369-392
_classify_task(message) ==
    LET message_lower == Lower(message)
    IN  IF \E signal \in creative_signals : IsSubstring(signal, message_lower)
        THEN "creative"
        ELSE IF \E signal \in precise_signals : IsSubstring(signal, message_lower)
        THEN "precise"
        ELSE "balanced"

\* the words the classified messages are made of: with and without
\* signals, in upper case, with a signal inside a longer word, and the
\* halves of the two-word signals
Vocabulary ==
    { <<"p", "o", "e", "m">>,
      <<"P", "O", "E", "M">>,
      <<"R", "u", "n">>,
      <<"p", "r", "u", "n", "e">>,
      <<"h", "e", "l", "l", "o">>,
      <<"w", "r", "i", "t", "e">>,
      <<"t", "e", "l", "l">>,
      <<"m", "e">>,
      <<"f", "i", "l", "e">>,
      <<"c", "r", "e", "a", "t", "e">> }

\* longest message, in words
MaxWords == 2

\* the messages of n words, joined by single spaces
RECURSIVE MessagesOf(_)
MessagesOf(n) ==
    IF n = 1 THEN Vocabulary
    ELSE { m \o <<" ">> \o w : m \in MessagesOf(n - 1), w \in Vocabulary }

UserMessages == UNION { MessagesOf(n) : n \in 1..MaxWords }

\* everything but the function call is at rest
InitRest ==
    /\ pc = "idle"
    /\ InitLocals
    /\ hpc = [h \in Handlers |-> "waiting"]
    /\ hstep = [h \in Handlers |-> 0]
    /\ heffects = [h \in Handlers |-> 0]
    /\ sender = 0
    /\ kind = "none"
    /\ apc = "waiting"
    /\ aplain = FALSE
    /\ astep = 0
    /\ alog = <<>>
    /\ InitLifeRest
    /\ InitKnowRest

InitClassify ==
    /\ InitRest
    /\ fpc = "call"
    /\ ftext \in UserMessages
    /\ fresult = Undef

\* task_type = self._classify_task(user_message)
Classify ==
    /\ fpc = "call"
    /\ fresult' = _classify_task(ftext)
    /\ fpc' = "return"
    /\ UNCHANGED <<ftext, handlerVars, concVars, authVars, lifeVars, knowVars>>

SpecClassify == InitClassify /\ [][Classify]_vars

\* ------------------------------------------------------------------------
\* _extract_json on the characters of the text (brain.py)
\* ------------------------------------------------------------------------

\* The values json.loads returns.  Python's None is JNull, whether it is
\* the value of the text null or the "nothing found" of _extract_json.
EmptyFcn == [x \in {} |-> x]
JNull == [t |-> "null", v |-> <<>>]
JBool(b) == [t |-> "bool", v |-> b]
JNum(digits) == [t |-> "num", v |-> digits]
JStr(chars) == [t |-> "str", v |-> chars]
JArr(elements) == [t |-> "arr", v |-> elements]
JObj(members) == [t |-> "obj", v |-> members]

\* text[i], or a mark past the end
At(t, i) == IF i \in 1..Len(t) THEN t[i] ELSE "EOF"

\* \s of the regular expressions and the whitespace json.loads skips
Whitespace == {" ", "\n"}

\* the character of the code fences, which a string of this language cannot
\* hold
Backtick == "GRAVE"

Digits == {"0", "1", "2", "3", "4", "5", "6", "7", "8", "9"}

\* the index of the first character from i on that is not whitespace
RECURSIVE SkipWs(_, _)
SkipWs(t, i) == IF At(t, i) \in Whitespace THEN SkipWs(t, i + 1) ELSE i

\* text.startswith(s, i)
StartsAt(s, t, i) ==
    /\ i >= 1
    /\ i + Len(s) - 1 <= Len(t)
    /\ SubSeq(t, i, i + Len(s) - 1) = s

\* text.find(s, from): the least index where s starts, 0 for not found
Find(s, t, from) ==
    LET hits == {i \in from..Len(t) : StartsAt(s, t, i)}
    IN  IF hits = {} THEN 0
        ELSE CHOOSE i \in hits : \A j \in hits : i <= j

\* str.strip()
strip(t) ==
    LET keep == {i \in 1..Len(t) : t[i] \notin Whitespace}
    IN  IF keep = {} THEN <<>>
        ELSE SubSeq(t, CHOOSE i \in keep : \A j \in keep : i <= j,
                       CHOOSE i \in keep : \A j \in keep : i >= j)

OpenThink == <<"<", "t", "h", "i", "n", "k", ">">>
CloseThink == <<"<", "/", "t", "h", "i", "n", "k", ">">>

\* line 269: re.sub(r"<think>.*?</think>", "", text, flags=re.DOTALL)
RECURSIVE RemovePairedThink(_)
RemovePairedThink(t) ==
    LET open == Find(OpenThink, t, 1)
        close == IF open = 0 THEN 0
                 ELSE Find(CloseThink, t, open + Len(OpenThink))
    IN  IF open = 0 \/ close = 0 THEN t
        ELSE SubSeq(t, 1, open - 1)
             \o RemovePairedThink(SubSeq(t, close + Len(CloseThink), Len(t)))

\* line 270: re.sub(r"<think>.*$", "", cleaned, flags=re.DOTALL)
RemoveOpenThink(t) ==
    LET open == Find(OpenThink, t, 1)
    IN  IF open = 0 THEN t ELSE SubSeq(t, 1, open - 1)

\* lines 267-271
strip_thinking_tags(t) == strip(RemoveOpenThink(RemovePairedThink(t)))

\* json.loads: a parse is [ok, val, pos], pos the index after the value
NoParse == [ok |-> FALSE, val |-> JNull, pos |-> 0]
Parsed(val, pos) == [ok |-> TRUE, val |-> val, pos |-> pos]

\* the characters of a string literal from index i on (after the opening
\* quote): an escaped quote, backslash, slash or n is decoded; any other
\* escape, a raw line break and the end of the text are errors
RECURSIVE ParseChars(_, _, _)
ParseChars(t, i, acc) ==
    LET c == At(t, i)
        e == At(t, i + 1)
    IN  IF c = "EOF" \/ c = "\n" THEN NoParse
        ELSE IF c = "\"" THEN Parsed(JStr(acc), i + 1)
        ELSE IF c = "\\"
        THEN IF e \in {"\"", "\\", "/"} THEN ParseChars(t, i + 2, Append(acc, e))
             ELSE IF e = "n" THEN ParseChars(t, i + 2, Append(acc, "\n"))
             ELSE NoParse
        ELSE ParseChars(t, i + 1, Append(acc, c))

\* an integer without sign: 0 or a digit sequence that does not start
\* with 0
RECURSIVE ParseDigits(_, _, _)
ParseDigits(t, i, acc) ==
    IF At(t, i) \in Digits /\ acc # <<"0">>
    THEN ParseDigits(t, i + 1, Append(acc, t[i]))
    ELSE Parsed(JNum(acc), i)

RECURSIVE ParseValue(_, _)
RECURSIVE ParseMembers(_, _, _)
RECURSIVE ParseElements(_, _, _)

\* a value that starts at index i (whitespace already skipped)
ParseValue(t, i) ==
    LET c == At(t, i)
    IN  IF c = "\"" THEN ParseChars(t, i + 1, <<>>)
        ELSE IF c = "{"
        THEN IF At(t, SkipWs(t, i + 1)) = "}"
             THEN Parsed(JObj(EmptyFcn), SkipWs(t, i + 1) + 1)
             ELSE ParseMembers(t, SkipWs(t, i + 1), EmptyFcn)
        ELSE IF c = "["
        THEN IF At(t, SkipWs(t, i + 1)) = "]"
             THEN Parsed(JArr(<<>>), SkipWs(t, i + 1) + 1)
             ELSE ParseElements(t, SkipWs(t, i + 1), <<>>)
        ELSE IF StartsAt(<<"t", "r", "u", "e">>, t, i) THEN Parsed(JBool(TRUE), i + 4)
        ELSE IF StartsAt(<<"f", "a", "l", "s", "e">>, t, i) THEN Parsed(JBool(FALSE), i + 5)
        ELSE IF StartsAt(<<"n", "u", "l", "l">>, t, i) THEN Parsed(JNull, i + 4)
        ELSE IF c \in Digits THEN ParseDigits(t, i, <<>>)
        ELSE NoParse

\* "key": value pairs from index i on, up to the closing brace; a later
\* pair replaces an earlier one with the same key
ParseMembers(t, i, acc) ==
    IF At(t, i) # "\"" THEN NoParse
    ELSE LET key == ParseChars(t, i + 1, <<>>)
             colon == SkipWs(t, key.pos)
             val == ParseValue(t, SkipWs(t, colon + 1))
             next == SkipWs(t, val.pos)
             members == [k \in DOMAIN acc \cup {key.val.v} |->
                            IF k = key.val.v THEN val.val ELSE acc[k]]
         IN  IF ~key.ok THEN NoParse
             ELSE IF At(t, colon) # ":" THEN NoParse
             ELSE IF ~val.ok THEN NoParse
             ELSE IF At(t, next) = "}" THEN Parsed(JObj(members), next + 1)
             ELSE IF At(t, next) = ","
             THEN ParseMembers(t, SkipWs(t, next + 1), members)
             ELSE NoParse

\* values from index i on, up to the closing bracket
ParseElements(t, i, acc) ==
    LET val == ParseValue(t, i)
        next == SkipWs(t, val.pos)
    IN  IF ~val.ok THEN NoParse
        ELSE IF At(t, next) = "]" THEN Parsed(JArr(Append(acc, val.val)), next + 1)
        ELSE IF At(t, next) = ","
        THEN ParseElements(t, SkipWs(t, next + 1), Append(acc, val.val))
        ELSE NoParse

\* json.loads(text): one value and nothing but whitespace around it;
\* ok is FALSE where json.loads raises JSONDecodeError
json_loads(t) ==
    LET val == ParseValue(t, SkipWs(t, 1))
    IN  IF val.ok /\ SkipWs(t, val.pos) = Len(t) + 1 THEN val ELSE NoParse

Fence == <<Backtick, Backtick, Backtick>>

\* the match of the fence pattern (three backticks, an optional json,
\* \s*, the group \{.*?\}, \s*, three backticks) that starts at index p:
\* its group 1 as [ok, from, to]
FenceMatchAt(t, p) ==
    LET tag == IF StartsAt(<<"j", "s", "o", "n">>, t, p + 3) THEN p + 7 ELSE p + 3
        from == SkipWs(t, tag)
        ends == {e \in (from + 1)..Len(t) :
                    t[e] = "}" /\ StartsAt(Fence, t, SkipWs(t, e + 1))}
    IN  IF StartsAt(Fence, t, p) /\ At(t, from) = "{" /\ ends # {}
        THEN [ok |-> TRUE, from |-> from,
              to |-> CHOOSE e \in ends : \A f \in ends : e <= f]
        ELSE [ok |-> FALSE, from |-> 0, to |-> 0]

\* lines 290-291: re.search(fence_pattern, text, re.DOTALL), the leftmost
\* match
FenceSearch(t) ==
    LET starts == {p \in 1..Len(t) : FenceMatchAt(t, p).ok}
    IN  IF starts = {} THEN [ok |-> FALSE, from |-> 0, to |-> 0]
        ELSE FenceMatchAt(t, CHOOSE p \in starts : \A q \in starts : p <= q)

\* lines 301-321, for i in range(brace_start, len(text)): the index of
\* the brace that brings the depth back to 0, or 0 when the loop runs off
\* the text.  The loop's variables are given for every index i at once:
\*   escape_next is set at i when an odd number of backslashes ends at
\*     i - 1 (each unescaped backslash escapes the character after it);
\*   in_string is set at i when an odd number of unescaped quotes lies
\*     between brace_start and i;
\*   depth counts the braces that are neither escaped nor in a string.
BraceScan(t, brace_start) ==
    LET range == brace_start..Len(t)
        LastOther(i) ==
            CHOOSE j \in (brace_start - 1)..(i - 1) :
                /\ j = brace_start - 1 \/ t[j] # "\\"
                /\ \A k \in (j + 1)..(i - 1) : t[k] = "\\"
        escape_next == {i \in range : (i - 1 - LastOther(i)) % 2 = 1}
        quotes == {i \in range \ escape_next : t[i] = "\""}
        in_string ==
            {i \in range : Cardinality({q \in quotes : q < i}) % 2 = 1}
        opened == {i \in range \ (escape_next \cup in_string) : t[i] = "{"}
        closed == {i \in range \ (escape_next \cup in_string) : t[i] = "}"}
        Depth(i) == Cardinality({o \in opened : o <= i})
                    - Cardinality({c \in closed : c <= i})
        ends == {i \in closed : Depth(i) = 0}
    IN  IF ends = {} THEN 0
        ELSE CHOOSE i \in ends : \A j \in ends : i <= j

\* the characters of t at the indices in keep, in their order
Keep(t, keep) ==
    [j \in 1..Cardinality(keep) |->
        t[CHOOSE i \in keep : Cardinality({k \in keep : k <= i}) = j]]

\* re.sub(r",\s*}", "}", fixed) and re.sub(r",\s*]", "]", fixed): every
\* comma that is followed by whitespace and the closing character goes,
\* and the whitespace with it
StripCommaBefore(close, t) ==
    LET matches == {c \in 1..Len(t) :
                       t[c] = "," /\ At(t, SkipWs(t, c + 1)) = close}
        dropped == UNION {c..(SkipWs(t, c + 1) - 1) : c \in matches}
    IN  Keep(t, (1..Len(t)) \ dropped)

\* a repair that leaves the candidate as it is
FixTrailingCommas_none(candidate) == candidate

\* lines 330-331 and 339-340
FixTrailingCommas(candidate) ==
    StripCommaBefore("]", StripCommaBefore("}", candidate))

\* line 338: every single quote becomes a double quote
ReplaceQuotes(candidate) ==
    [i \in 1..Len(candidate) |->
        IF candidate[i] = "'" THEN "\"" ELSE candidate[i]]

\* the first match of "name"\s*:\s*"(.*?)" in the text: its group 1
RegexField(name, t) ==
    LET quoted == <<"\"">> \o name \o <<"\"">>
        Colon(p) == SkipWs(t, p + Len(quoted))
        Open(p) == SkipWs(t, Colon(p) + 1)
        Closes(p) == {e \in (Open(p) + 1)..Len(t) : t[e] = "\""}
        starts == {p \in 1..Len(t) :
                      /\ StartsAt(quoted, t, p)
                      /\ At(t, Colon(p)) = ":"
                      /\ At(t, Open(p)) = "\""
                      /\ Closes(p) # {}}
        first == CHOOSE p \in starts : \A q \in starts : p <= q
    IN  IF starts = {} THEN [found |-> FALSE, group |-> <<>>]
        ELSE [found |-> TRUE,
              group |-> SubSeq(t, Open(first) + 1,
                               (CHOOSE e \in Closes(first) :
                                   \A f \in Closes(first) : e <= f) - 1)]

K_thought == <<"t", "h", "o", "u", "g", "h", "t">>
K_action == <<"a", "c", "t", "i", "o", "n">>
K_parameters == <<"p", "a", "r", "a", "m", "e", "t", "e", "r", "s">>
K_response == <<"r", "e", "s", "p", "o", "n", "s", "e">>
K_continue == <<"c", "o", "n", "t", "i", "n", "u", "e">>

DecisionKeys == {K_thought, K_action, K_parameters, K_response, K_continue}

\* a dict with the five keys of a decision
Decision(thought, action, parameters, response, continue) ==
    JObj([k \in DecisionKeys |->
            IF k = K_thought THEN thought
            ELSE IF k = K_action THEN action
            ELSE IF k = K_parameters THEN parameters
            ELSE IF k = K_response THEN response
            ELSE continue])

\* a last resort that lets the chain go on
RegexFallback_continue(t) ==
    LET thought_match == RegexField(K_thought, t)
        response_match == RegexField(K_response, t)
    IN  IF response_match.found
        THEN Decision(JStr(IF thought_match.found THEN thought_match.group
                           ELSE <<>>),
                      JStr(<<"n", "o", "n", "e">>), JObj(EmptyFcn),
                      JStr(response_match.group), JBool(TRUE))
        ELSE JNull

\* lines 345-357 (step 5)
RegexFallback(t) ==
    LET thought_match == RegexField(K_thought, t)
        response_match == RegexField(K_response, t)
    IN  IF response_match.found
        THEN Decision(JStr(IF thought_match.found THEN thought_match.group
                           ELSE <<>>),
                      JStr(<<"n", "o", "n", "e">>), JObj(EmptyFcn),
                      JStr(response_match.group), JBool(FALSE))
        ELSE JNull

\* lines 289-296 (step 3): the parse of the fenced block
FencedParse(t) ==
    LET match == FenceSearch(t)
    IN  IF match.ok THEN json_loads(SubSeq(t, match.from, match.to))
        ELSE NoParse

\* lines 298-343 (step 4): the parse of the first balanced span, as it
\* is, with the trailing commas stripped, or with the single quotes
\* replaced as well
BraceParse(t) ==
    LET brace_start == Find(<<"{">>, t, 1)
        end == IF brace_start = 0 THEN 0
               ELSE BraceScan(t, brace_start)
        candidate == SubSeq(t, brace_start, end)
    IN  IF end = 0 THEN NoParse
        ELSE IF json_loads(candidate).ok THEN json_loads(candidate)
        ELSE IF json_loads(FixTrailingCommas(candidate)).ok
        THEN json_loads(FixTrailingCommas(candidate))
        ELSE json_loads(FixTrailingCommas(ReplaceQuotes(candidate)))

\* lines 274-357
extract_json(raw_text) ==
    LET t == strip_thinking_tags(raw_text)
    IN  IF t = <<>> THEN JNull
        ELSE IF json_loads(t).ok THEN json_loads(t).val
        ELSE IF FencedParse(t).ok THEN FencedParse(t).val
        ELSE IF BraceParse(t).ok THEN BraceParse(t).val
        ELSE RegexFallback(t)

\* ------------------------------------------------------------------------
\* The texts _extract_json is called on
\* ------------------------------------------------------------------------

\* the well-formed records the model answers with
WellFormedRecords ==
    {
      \* a decision with its five fields
      \*   {"thought":"t","action":"none","parameters":{},"response":"hi","continue":false}
      <<"{", "\"", "t", "h", "o", "u", "g", "h", "t", "\"", ":", "\"", "t",
        "\"", ",", "\"", "a", "c", "t", "i", "o", "n", "\"", ":", "\"", "n",
        "o", "n", "e", "\"", ",", "\"", "p", "a", "r", "a", "m", "e", "t",
        "e", "r", "s", "\"", ":", "{", "}", ",", "\"", "r", "e", "s", "p",
        "o", "n", "s", "e", "\"", ":", "\"", "h", "i", "\"", ",", "\"", "c",
        "o", "n", "t", "i", "n", "u", "e", "\"", ":", "f", "a", "l", "s",
        "e", "}">>,
      \* string values with braces and escaped quotes, a nested object
      <<"{", "\"", "a", "c", "t", "i", "o", "n", "\"", ":", "\"", "r", "u",
        "n", "\"", ",", "\"", "p", "a", "r", "a", "m", "e", "t", "e", "r",
        "s", "\"", ":", "{", "\"", "c", "m", "d", "\"", ":", "\"", "a", "{",
        "b", "}", "\"", "}", ",", "\"", "r", "e", "s", "p", "o", "n", "s",
        "e", "\"", ":", "\"", "s", "a", "y", " ", "\\", "\"", "x", "\\",
        "\"", "\"", ",", "\"", "c", "o", "n", "t", "i", "n", "u", "e", "\"",
        ":", "t", "r", "u", "e", "}">>,
      \* a list among the parameters, a closing brace in a string value
      \*   {"action":"run","parameters":{"args":[1,2]},"response":"r}"}
      <<"{", "\"", "a", "c", "t", "i", "o", "n", "\"", ":", "\"", "r", "u",
        "n", "\"", ",", "\"", "p", "a", "r", "a", "m", "e", "t", "e", "r",
        "s", "\"", ":", "{", "\"", "a", "r", "g", "s", "\"", ":", "[", "1",
        ",", "2", "]", "}", ",", "\"", "r", "e", "s", "p", "o", "n", "s",
        "e", "\"", ":", "\"", "r", "}", "\"", "}">>,
      \* a string value that names the reasoning tag
      \*   {"action":"none","response":"the <think> tag"}
      <<"{", "\"", "a", "c", "t", "i", "o", "n", "\"", ":", "\"", "n", "o",
        "n", "e", "\"", ",", "\"", "r", "e", "s", "p", "o", "n", "s", "e",
        "\"", ":", "\"", "t", "h", "e", " ", "<", "t", "h", "i", "n", "k",
        ">", " ", "t", "a", "g", "\"", "}">>,
      \* a string value with a comma before a closing brace
      \*   {"action":"none","response":"d = {1, }"}
      <<"{", "\"", "a", "c", "t", "i", "o", "n", "\"", ":", "\"", "n", "o",
        "n", "e", "\"", ",", "\"", "r", "e", "s", "p", "o", "n", "s", "e",
        "\"", ":", "\"", "d", " ", "=", " ", "{", "1", ",", " ", "}", "\"",
        "}">> }

LeadingProse ==
    {
      \* what the model writes before a record
      \*   Here it is: 
      <<"H", "e", "r", "e", " ", "i", "t", " ", "i", "s", ":", " ">>,
      \*   I set {x} first. 
      <<"I", " ", "s", "e", "t", " ", "{", "x", "}", " ", "f", "i", "r", "s",
        "t", ".", " ">> }

TrailingProse ==
    {
      \* what the model writes after a record
      \*    Done.
      <<" ", "D", "o", "n", "e", ".">>,
      <<"\n", "T", "h", "a", "t", " ", "i", "s", " ", "}", "a", "l", "l",
        "{", ".">> }

\* the opening of a fenced block, with and without the json tag, and its
\* closing
FenceOpenings ==
    { <<Backtick, Backtick, Backtick, "j", "s", "o", "n", "\n">>,
      <<Backtick, Backtick, Backtick, "\n">> }

FenceClosing == <<"\n", Backtick, Backtick, Backtick>>

\* a record in a fenced block between prose
FencedTexts ==
    { lead \o open \o record \o FenceClosing \o trail :
        lead \in LeadingProse, open \in FenceOpenings,
        record \in WellFormedRecords, trail \in TrailingProse }

\* a record between narration
NarratedTexts ==
    { lead \o record \o trail :
        lead \in LeadingProse, record \in WellFormedRecords,
        trail \in TrailingProse }

\* the closing braces and brackets of a record that stand outside its
\* string values and after a value
ClosersOf(record) ==
    {i \in 2..Len(record) :
        /\ record[i] \in {"}", "]"}
        /\ record[i - 1] \notin {"{", "[", "\\"}
        /\ Cardinality({q \in 1..(i - 1) :
                           record[q] = "\"" /\ At(record, q - 1) # "\\"}) % 2 = 0}

\* the record with a comma put before its character i
WithComma(record, i) ==
    SubSeq(record, 1, i - 1) \o <<",">> \o SubSeq(record, i, Len(record))

\* a record with one trailing comma
TrailingCommaTexts ==
    UNION { { WithComma(record, i) : i \in ClosersOf(record) } :
              record \in WellFormedRecords }

\* other answers of the model
OtherTexts ==
    { \* JSON values that are no objects
      <<"[", "1", "]">>,
      <<"5">>,
      <<"\"", "s", "\"">>,
      <<"n", "u", "l", "l">>,
      \* an object with one field
      <<"{", "\"", "r", "e", "s", "p", "o", "n", "s", "e", "\"", ":", "\"",
        "h", "i", "\"", "}">>,
      \* no record at all
      <<"I", " ", "c", "a", "n", "n", "o", "t", " ", "h", "e", "l", "p",
        " ", "w", "i", "t", "h", " ", "t", "h", "a", "t", ".">>,
      \* records that no step can parse
      <<"{", "\"", "t", "h", "o", "u", "g", "h", "t", "\"", ":", " ", "\"",
        "t", "\"", ",", " ", "\"", "r", "e", "s", "p", "o", "n", "s", "e",
        "\"", ":", " ", "\"", "h", "i", "\"", ",", " ", "\"", "a", "c",
        "t", "i", "o", "n", "\"", ":", " ", "}">>,
      <<"{", "\"", "r", "e", "s", "p", "o", "n", "s", "e", "\"", ":", " ",
        "\"", "h", "i", "\"", " ", "\"", "x", "\"", "}">>,
      <<"{", "\"", "r", "e", "s", "p", "o", "n", "s", "e", "\"", ":", "\"",
        "s", "a", "y", " ", "\\", "\"", "x", "\\", "\"", "\"", " ", "1", "}">>,
      <<"{", "\"", "a", "c", "t", "i", "o", "n", "\"", ":", " ", "}">>,
      <<"{", "\"", "t", "h", "o", "u", "g", "h", "t", "\"", ":", " ", "\"",
        "t", "\"", ",", " ", "\"", "r", "e", "s", "p", "o", "n", "s", "e",
        "\"", ":", " ", "\"", "u", "n", "c", "l", "o", "s", "e", "d">>,
      \* single quotes
      <<"{", "'", "r", "e", "s", "p", "o", "n", "s", "e", "'", ":", "'",
        "h", "i", "'", ",", "}">>,
      <<"{", "'", "r", "e", "s", "p", "o", "n", "s", "e", "'", ":", "'",
        "i", "t", "'", "s", "'", "}">>,
      \* reasoning blocks, closed and left open
      <<"<", "t", "h", "i", "n", "k", ">", "p", "l", "a", "n", " ", "{",
        "<", "/", "t", "h", "i", "n", "k", ">", "{", "\"", "r", "e", "s",
        "p", "o", "n", "s", "e", "\"", ":", "\"", "h", "i", "\"", ",",
        "\"", "a", "c", "t", "i", "o", "n", "\"", ":", "\"", "n", "o", "n",
        "e", "\"", "}">>,
      <<"<", "t", "h", "i", "n", "k", ">", "n", "e", "v", "e", "r", " ",
        "c", "l", "o", "s", "e", "d", " ", "{", "\"", "r", "e", "s", "p",
        "o", "n", "s", "e", "\"", ":", "\"", "h", "i", "\"", "}">>,
      <<"{", "\"", "r", "e", "s", "p", "o", "n", "s", "e", "\"", ":", "\"",
        "h", "i", "\"", "}", " ", "<", "t", "h", "i", "n", "k", ">", "t",
        "a", "i", "l">>,
      \* a fenced block that does not parse
      <<Backtick, Backtick, Backtick, "j", "s", "o", "n", "\n", "{", "\"",
        "r", "e", "s", "p", "o", "n", "s", "e", "\"", ":", "\"", "h", "i",
        "\"", ",", "}", "\n", Backtick, Backtick, Backtick>> }

RawTexts == FencedTexts \cup NarratedTexts \cup TrailingCommaTexts \cup OtherTexts

InitExtract ==
    /\ InitRest
    /\ fpc = "call"
    /\ ftext \in RawTexts
    /\ fresult = Undef

\* decision = _extract_json(raw)
Extract ==
    /\ fpc = "call"
    /\ fresult' = extract_json(ftext)
    /\ fpc' = "return"
    /\ UNCHANGED <<ftext, handlerVars, concVars, authVars, lifeVars, knowVars>>

SpecExtract == InitExtract /\ [][Extract]_vars

\* ------------------------------------------------------------------------
\* Specifications
\* ------------------------------------------------------------------------

Next ==
    \/ Receive
    \/ StoreUserMessage
    \/ SendTyping
    \/ ThinkContext
    \/ ThinkAttempt(ChainRecords)
    \/ AfterThink
    \/ Dispatch
    \/ StoreAction
    \/ SendMedia
    \/ ReflectRequest
    \/ Reflect(ChainRecords)
    \/ ChainReturn
    \/ StoreAssistantMessage
    \/ safe_reply
    \/ ErrorReply

Spec == Init /\ [][Next]_vars

\* every awaited call completes, so the handler always takes its next step
FairSpec == Spec /\ WF_vars(Next)

\* ------------------------------------------------------------------------
\* Properties
\* ------------------------------------------------------------------------

\* C1: in every chain the number of recorded ChainSteps and the number of
\* tool dispatches never exceed MAX_CHAIN_STEPS, whatever the model answers.
C1_ChainBounded ==
    /\ Len(chain_context) <= MAX_CHAIN_STEPS
    /\ dispatches <= MAX_CHAIN_STEPS

\* the ceiling is reached while the model still asks for another tool
C1_Witness ==
    /\ pc = "chain_done"
    /\ Len(chain_context) = MAX_CHAIN_STEPS
    /\ dispatches = MAX_CHAIN_STEPS
    /\ Get(decision, "action", Str("none")) = Str("execute_cmd")
    /\ Get(decision, "continue", Bool(FALSE)) = Bool(TRUE)

\* C2: every chain terminates: while every awaited call completes, a running
\* chain eventually reaches Done and returns; the only other way out is a
\* dispatch or a store write that raises instead of returning.
C2_ChainTerminates ==
    (chain_outcome = "running") ~> (chain_outcome \in {"returned", "raised"})

\* a chain that ran to the ceiling has returned
C2_Witness ==
    /\ chain_outcome = "returned"
    /\ Len(chain_context) = MAX_CHAIN_STEPS
    /\ reflections = MAX_CHAIN_STEPS

\* C3 as stated: after a reflection another tool is dispatched iff the
\* reflected action is not "none", one of the two continue flags is true and
\* the step counter is below the ceiling; otherwise the chain is Done.
C3_Original ==
    [][pc = "reflect" =>
         /\ pc' \in {"dispatch", "chain_done"}
         /\ (pc' = "dispatch") <=>
              /\ Get(follow_decision', "action", Str("none")) # Str("none")
              /\ \/ Truthy(Get(follow_decision', "continue", Bool(FALSE)))
                 \/ Truthy(should_continue)
              /\ step < MAX_CHAIN_STEPS]_vars

\* C3 amended: ... iff the reflected action is neither empty (falsy) nor
\* "none", one of the two continue flags is true and the step counter is
\* below the ceiling; otherwise the chain is Done.
C3_Amended ==
    [][pc = "reflect" =>
         /\ pc' \in {"dispatch", "chain_done"}
         /\ (pc' = "dispatch") <=>
              /\ Get(follow_decision', "action", Str("none")) # Str("none")
              /\ Truthy(Get(follow_decision', "action", Str("none")))
              /\ \/ Truthy(Get(follow_decision', "continue", Bool(FALSE)))
                 \/ Truthy(should_continue)
              /\ step < MAX_CHAIN_STEPS]_vars

\* a second dispatch granted by the pre-dispatch continue flag alone
C3_Witness ==
    /\ pc = "dispatch"
    /\ step = 2
    /\ ~Truthy(Get(follow_decision, "continue", Bool(FALSE)))
    /\ initial_decision["continue"] = Bool(TRUE)

\* C4: when the initial Decision's action is "none", missing or empty, there
\* is no tool dispatch, no reflection, no action-store write and no
\* ChainStep, and the response is the initial Decision's response.
C4_NoActionNoChain ==
    (/\ think_outcome = "returned"
     /\ pc # "think_ret"
     /\ Get(initial_decision, "action", Str("none")) \in {Str("none"), Str(""), Null})
    => /\ dispatches = 0
       /\ reflections = 0
       /\ action_rows = <<>>
       /\ chain_context = <<>>
       /\ chain_outcome = "none"
       /\ final_response = Get(initial_decision, "response", Str(""))

\* an initial Decision with an empty action was answered without a chain
C4_Witness ==
    /\ pc = "done"
    /\ think_outcome = "returned"
    /\ initial_decision["action"] = Str("")
    /\ replies = <<[kind |-> "final", text |-> initial_decision["response"]]>>

\* C5: a ToolResult with success=false does not abort the chain: it is
\* reflected on, and the chain goes on exactly when the reflected Decision
\* and the ceiling allow it, as for a successful result.
C5_FailureDoesNotAbort ==
    [][pc = "reflect" /\ ~tool_result.success =>
         /\ reflections' = reflections + 1
         /\ (pc' = "dispatch") <=>
              /\ Get(follow_decision', "action", Str("none")) # Str("none")
              /\ Truthy(Get(follow_decision', "action", Str("none")))
              /\ \/ Truthy(Get(follow_decision', "continue", Bool(FALSE)))
                 \/ Truthy(should_continue)
              /\ step < MAX_CHAIN_STEPS]_vars

\* a further tool is dispatched right after a failed one
C5_Witness ==
    /\ pc = "dispatch"
    /\ step >= 2
    /\ ~chain_context[step - 1].success
    /\ reflections = step - 1

\* C6: once handle_text_message has finished with a non-empty message of the
\* authorized user, exactly one final reply (the chain's response or an
\* error message) has been delivered.
C6_OneFinalReply ==
    pc \in {"done", "raised"}
    => /\ Len(replies) = 1
       /\ replies[1].kind \in {"final", "error"}

\* C7: Brain.think never raises to its caller.
C7_ThinkNeverRaises == think_outcome # "raised"

\* C8: every Decision returned by Brain.think has the five fields thought,
\* action, parameters, response, continue, typed text, text, mapping, text,
\* boolean.
C8_DecisionTyped ==
    pc = "think_ret"
    => /\ Fields \subseteq DOMAIN initial_decision
       /\ initial_decision["thought"].t = "str"
       /\ initial_decision["action"].t = "str"
       /\ initial_decision["parameters"].t = "map"
       /\ initial_decision["response"].t = "str"
       /\ initial_decision["continue"].t = "bool"

\* C9: when every model call of one think() returned unparseable text,
\* think() made exactly MAX_RETRIES calls and returns action "none",
\* continue false and the tag-stripped text of the last call as response,
\* or the generic fallback when that text is empty.
C9_ExhaustedFallback ==
    (/\ pc = "think_ret"
     /\ outcomes # <<>>
     /\ \A i \in 1..Len(outcomes) : outcomes[i] = "unparseable")
    => /\ calls = MAX_RETRIES
       /\ initial_decision["action"] = Str("none")
       /\ initial_decision["continue"] = Bool(FALSE)
       /\ initial_decision["parameters"] = EmptyMap
       /\ initial_decision["response"] =
            IF _strip_thinking_tags(raw) # <<>>
            THEN Str(Render(_strip_thinking_tags(raw)))
            ELSE Str("I processed your request but couldn't format the response properly.")

\* three unparseable answers, the last one prose behind a think block
C9_Witness ==
    /\ pc = "think_ret"
    /\ outcomes = <<"unparseable", "unparseable", "unparseable">>
    /\ raw = <<OpenTag, Prose, CloseTag, Prose>>
    /\ initial_decision["response"] = Str("prose")

\* C10: think() never makes more than MAX_RETRIES reasoning calls; the
\* first call whose output extracts successfully is the last call and
\* think() returns on it; a service error on the final attempt yields
\* action "none", empty parameters, continue false and an error response.
C10_RetryBudget ==
    /\ calls <= MAX_RETRIES
    /\ \A i \in 1..Len(outcomes) :
         outcomes[i] \in {"object", "nonobject"}
         => i = Len(outcomes) /\ pc = "think_ret"
    /\ (/\ pc = "think_ret"
        /\ Len(outcomes) = MAX_RETRIES
        /\ outcomes[MAX_RETRIES] = "exc")
       => initial_decision = ErrorDecision

\* C11: within one think() the temperature of attempt 0 is the base
\* temperature and that of attempt k > 0 is max(0.1, base - 0.2*k), so it
\* never rises from one attempt to the next and never falls below 0.1
\* (in tenths, for the bases 0.7, 0.5 and 0.2).
C11_TemperatureLadder ==
    requests # <<>>
    => /\ temperature \in {7, 5, 2}
       /\ \A i \in 1..Len(requests) :
            /\ requests[i].temperature =
                 IF i = 1 THEN temperature
                 ELSE IF temperature - 2 * (i - 1) >= 1
                      THEN temperature - 2 * (i - 1) ELSE 1
            /\ requests[i].temperature >= 1
            /\ i > 1 => requests[i].temperature <= requests[i - 1].temperature

\* a precise task retried twice: the second and third call sit on the floor
C11_Witness ==
    /\ Len(requests) = MAX_RETRIES
    /\ requests[1].temperature = 2
    /\ requests[2].temperature = 1
    /\ requests[3].temperature = 1

\* C12: within one think() the context bundle is read exactly once; the
\* message list of attempt k > 0 is the list of attempt 0 followed by one
\* corrective message; the base list stays as built.
C12_BaseListFixed ==
    /\ pc # "think_ctx" => context_reads = 1
    /\ \A i \in 1..Len(requests) :
         /\ requests[1].messages = messages
         /\ i > 1 => requests[i].messages =
                       Append(requests[1].messages, CorrectiveMessage)

\* three calls over a stored history
C12_Witness ==
    /\ Len(requests) = MAX_RETRIES
    /\ Len(messages) = 5
    /\ Len(requests[3].messages) = 6
    /\ context_reads = 1

\* C13: each process_tool_result makes exactly one reasoning call; every
\* dispatch is followed by exactly one reflection before the next dispatch
\* or Done, so a chain that reaches Done has as many reflections as
\* dispatches.
C13_OneReflectionPerDispatch ==
    /\ reflect_calls = reflections
    /\ pc \in {"store_action", "media", "reflect_req", "reflect"}
         => dispatches = reflections + 1
    /\ pc \in {"dispatch", "chain_done"} => dispatches = reflections
    /\ chain_outcome = "returned" => dispatches = reflections

\* a chain of two steps has returned after two reasoning calls of reflect
C13_Witness ==
    /\ chain_outcome = "returned"
    /\ dispatches = 2
    /\ reflect_calls = 2

\* C16: the reasoning call that produces the Decision for step k+1 is shown
\* the recorded outcomes (action, success, output) of all ChainSteps 1..k.
C16_AllPriorStepsShown ==
    pc = "reflect"
    => /\ Len(StepsShown(reflect_messages)) = Len(chain_context)
       /\ \A i \in 1..Len(chain_context) :
            /\ StepsShown(reflect_messages)[i].action = chain_context[i].action
            /\ StepsShown(reflect_messages)[i].success = chain_context[i].success
            /\ StepsShown(reflect_messages)[i].output = chain_context[i].output

\* C14: every Decision returned by process_tool_result has the five fields
\* thought, action, parameters, response and continue, whichever fields the
\* reflected record contained.
C14_ReflectedDecisionComplete ==
    pc = "process_tool_result_ret" => Fields \subseteq DOMAIN follow_decision

\* C15: when the reasoning call of process_tool_result raises, or its
\* output yields no record, the returned Decision has action "none",
\* continue false and as response the local summary of the ToolResult:
\* stdout if non-empty, else stderr, else the return code.
C15_TotalFailureSummary ==
    (/\ pc = "process_tool_result_ret"
     /\ outcomes \in {<<"exc">>, <<"unparseable">>})
    => /\ Get(follow_decision, "action", Missing) = Str("none")
       /\ Get(follow_decision, "continue", Missing) = Bool(FALSE)
       /\ Get(follow_decision, "response", Missing) =
            IF tool_result.stdout # "" THEN Str(tool_result.stdout)
            ELSE IF tool_result.stderr # ""
                 THEN Str("Error: " \o tool_result.stderr)
                 ELSE Str("Command completed with return code.")

\* C17: a ToolResult that carries an image path or a file path has its
\* media forwarded in the step that dispatched it: after the dispatch,
\* before the reflection of that step and before any later dispatch; media
\* is forwarded at no other time.
C17_MediaForwardedAtOnce ==
    /\ [](pc \in {"reflect_req", "reflect"}
          => /\ tool_result.image_path # ""
                  => \E i \in 1..Len(media_sent) :
                        /\ media_sent[i] = tool_result.image_path
                        /\ i >= Len(media_sent) - 1
             /\ tool_result.file_path # ""
                  => /\ media_sent # <<>>
                     /\ media_sent[Len(media_sent)] = tool_result.file_path)
    /\ [][/\ pc = "media"
             => /\ pc' = "reflect_req"
                /\ media_sent' =
                     media_sent
                     \o (IF tool_result.image_path # ""
                         THEN <<tool_result.image_path>> ELSE <<>>)
                     \o (IF tool_result.file_path # ""
                         THEN <<tool_result.file_path>> ELSE <<>>)
          /\ pc # "media" => media_sent' = media_sent
          /\ pc' = "reflect_req" => pc = "media"]_vars

\* the document of the second step has been sent and its reflection is due
C17_Witness ==
    /\ pc = "reflect"
    /\ step = 2
    /\ tool_result.file_path = "doc.txt"
    /\ media_sent # <<>>
    /\ media_sent[Len(media_sent)] = "doc.txt"
    /\ reflections = 1

\* C18 as stated: in every state of a chain the step counter equals the
\* length of the ChainStep sequence, the i-th ChainStep carries index i,
\* and the sequence is append-only.
C18_Original ==
    /\ [](/\ step = Len(chain_context)
          /\ \A i \in 1..Len(chain_context) : chain_context[i].step = i)
    /\ [][/\ Len(chain_context') >= Len(chain_context)
          /\ SubSeq(chain_context', 1, Len(chain_context)) = chain_context]_vars

\* C18 amended: the step counter equals the length of the ChainStep
\* sequence, except from the increment at the loop head until the tool has
\* returned and its ChainStep is appended (and for good when dispatch_tool
\* raises), where the counter is one ahead; the i-th ChainStep carries
\* index i; the sequence is append-only.
C18_Amended ==
    /\ [](/\ pc = "dispatch" => step = Len(chain_context) + 1
          /\ pc # "dispatch" /\ chain_outcome # "raised"
               => step = Len(chain_context)
          /\ chain_outcome = "raised"
               => step \in {Len(chain_context), Len(chain_context) + 1}
          /\ \A i \in 1..Len(chain_context) : chain_context[i].step = i)
    /\ [][/\ Len(chain_context') >= Len(chain_context)
          /\ SubSeq(chain_context', 1, Len(chain_context)) = chain_context]_vars

\* the second tool is running: the counter is 2, one ChainStep is recorded
C18_Witness ==
    /\ pc = "dispatch"
    /\ step = 2
    /\ Len(chain_context) = 1
    /\ chain_context[1].step = 1

\* C19: the action record of step k is committed after step k's dispatch
\* and before step k's reflection and step k+1's dispatch; the rows of the
\* action log follow the ChainSteps in order; rows once committed stay,
\* whatever happens to the chain afterwards.
C19_ActionLogOrdered ==
    /\ [](/\ pc \in {"media", "reflect_req", "reflect"}
               => Len(action_rows) = step
          /\ pc \in {"dispatch", "store_action"}
               => Len(action_rows) = step - 1
          /\ Len(action_rows) <= Len(chain_context)
          /\ \A i \in 1..Len(action_rows) :
               /\ action_rows[i].action_type = chain_context[i].action
               /\ action_rows[i].success = chain_context[i].success)
    /\ [][/\ Len(action_rows') >= Len(action_rows)
          /\ SubSeq(action_rows', 1, Len(action_rows)) = action_rows]_vars

\* the chain is left by an exception in its second step; the record of the
\* first step, a failed tool, is still in the log
C19_Witness ==
    /\ chain_outcome = "raised"
    /\ pc = "done"
    /\ Len(chain_context) = 2
    /\ Len(action_rows) = 1
    /\ action_rows[1].action_type = chain_context[1].action
    /\ ~action_rows[1].success
    /\ chain_context[2].success

\* C20: for one conversation there is never more than one chain in flight:
\* no store write, reasoning call or tool dispatch happens for the second
\* message before the first message's chain has produced its final
\* response.
C20_OneChainInFlight == heffects[2] > 0 => hpc[1] = "done"

\* C21: on Done execute_tool_chain returns the full ChainStep sequence and
\* the latest response: the response of the last reflected Decision when a
\* tool was dispatched, otherwise the initial Decision's response.
C21_ChainReturnsLatest ==
    /\ [](pc = "chain_done"
          => /\ Len(chain_context) = dispatches
             /\ dispatches > 0
                  => /\ "response" \in DOMAIN follow_decision
                     /\ final_response = follow_decision["response"]
             /\ dispatches = 0
                  => final_response = Get(initial_decision, "response", Str("")))
    /\ [][pc = "chain_done"
          => /\ chain_context' = chain_context
             /\ chain_outcome' = "returned"
             /\ Len(chain_context) <= 1 => final_response' = final_response]_vars

\* two tools ran; the response on Done is the second reflection's, not the
\* initial Decision's
C21_Witness ==
    /\ pc = "chain_done"
    /\ Len(chain_context) = 2
    /\ final_response = Str("r1")
    /\ follow_decision["response"] = Str("r1")
    /\ initial_decision["response"] = Str("I processed your request.")

\* C22: dispatch_tool never raises: every call of it returns a ToolResult,
\* which the chain then records as a ChainStep; unknown actions and bad
\* parameters come back as success=false.
C22_DispatchNeverRaises ==
    /\ dispatches = Len(chain_context)
    /\ \A i \in 1..Len(chain_context) :
         (\/ chain_context[i].action \notin {Str(a) : a \in TOOL_MAP}
          \/ chain_context[i].parameters.t # "map")
         => ~chain_context[i].success

\* C23: a message from a user other than AUTHORIZED_USER_ID causes no
\* reasoning call, no tool dispatch and no store write (nor a download or
\* a transcription), whichever of the four handlers receives it; it is
\* answered by the denial alone.
C23_UnauthorizedNoEffect ==
    (apc # "waiting" /\ sender # 0)
    => /\ alog = <<>>
       /\ apc \in {"authorize", "denied"}

\* a voice message of a stranger has been denied
C23_Witness ==
    /\ apc = "denied"
    /\ kind = "voice"
    /\ sender = 2
    /\ alog = <<>>

\* C24: a text that contains a creative signal (as a substring, whatever
\* its case) is classified creative even if it also contains a precise
\* signal; otherwise a text that contains a precise signal is precise;
\* otherwise the text is balanced.
C24_CreativeFirst ==
    fpc = "return"
    => LET hasCreative ==
               \E s \in creative_signals : IsSubstring(s, Lower(ftext))
           hasPrecise ==
               \E s \in precise_signals : IsSubstring(s, Lower(ftext))
       IN  /\ hasCreative => fresult = "creative"
           /\ ~hasCreative /\ hasPrecise => fresult = "precise"
           /\ ~hasCreative /\ ~hasPrecise => fresult = "balanced"

\* "POEM Run": a creative and a precise signal, both in upper case
C24_Witness ==
    /\ fpc = "return"
    /\ ftext = <<"P", "O", "E", "M", " ", "R", "u", "n">>
    /\ fresult = "creative"

\* C25: whatever the text, _extract_json returns null or a record that has
\* the five fields thought, action, parameters, response and continue.
C25_NullOrFiveFields ==
    fpc = "return"
    => \/ fresult = JNull
       \/ fresult.t = "obj" /\ DecisionKeys \subseteq DOMAIN fresult.v

\* C26: for a well-formed record in a fenced block between prose,
\* _extract_json returns what json.loads returns for the record.
C26_FencedRoundTrip ==
    fpc = "return"
    => \A lead \in LeadingProse, open \in FenceOpenings,
          record \in WellFormedRecords, trail \in TrailingProse :
          ftext = lead \o open \o record \o FenceClosing \o trail
          => fresult = json_loads(record).val

\* C27: for narration, one well-formed record and more narration,
\* _extract_json returns the fields of the record, also when its string
\* values hold braces or escaped quotes.
C27_NarratedRecord ==
    fpc = "return"
    => \A lead \in LeadingProse, record \in WellFormedRecords,
          trail \in TrailingProse :
          ftext = lead \o record \o trail
          => fresult = json_loads(record).val

\* C28: a record with a trailing comma before a closing brace or bracket
\* is repaired: _extract_json returns the fields of the record without
\* the comma.
C28_TrailingCommaRepaired ==
    fpc = "return"
    => \A record \in WellFormedRecords :
          \A i \in ClosersOf(record) :
             ftext = WithComma(record, i)
             => fresult = json_loads(record).val

\* C29: when the direct parse, the fenced block and the balanced span all
\* fail, the result is null unless the response pattern matches; then it
\* is a decision with the matched response, action "none", no parameters,
\* continue false, and the matched thought or the empty string.
C29_LastResort ==
    LET t == strip_thinking_tags(ftext)
        thought == RegexField(K_thought, t)
        response == RegexField(K_response, t)
    IN  (/\ fpc = "return"
         /\ t # <<>>
         /\ ~json_loads(t).ok /\ ~FencedParse(t).ok /\ ~BraceParse(t).ok)
        => IF response.found
           THEN /\ fresult.t = "obj"
                /\ DOMAIN fresult.v = DecisionKeys
                /\ fresult.v[K_response] = JStr(response.group)
                /\ fresult.v[K_action] = JStr(<<"n", "o", "n", "e">>)
                /\ fresult.v[K_parameters] = JObj(EmptyFcn)
                /\ fresult.v[K_continue] = JBool(FALSE)
                /\ fresult.v[K_thought] =
                      JStr(IF thought.found THEN thought.group ELSE <<>>)
           ELSE fresult = JNull

\* a record whose action has no value: thought and response are matched
C29_Witness ==
    /\ fpc = "return"
    /\ ftext =
        <<"{", "\"", "t", "h", "o", "u", "g", "h", "t", "\"", ":", " ",
          "\"", "t", "\"", ",", " ", "\"", "r", "e", "s", "p", "o", "n",
          "s", "e", "\"", ":", " ", "\"", "h", "i", "\"", ",", " ", "\"",
          "a", "c", "t", "i", "o", "n", "\"", ":", " ", "}">>
    /\ fresult = Decision(JStr(<<"t">>), JStr(<<"n", "o", "n", "e">>),
                          JObj(EmptyFcn), JStr(<<"h", "i">>), JBool(FALSE))

\* C30: the handler and its chain only append to the store: every step
\* leaves the rows of the messages table and of the actions table in
\* place and unchanged, so neither count ever decreases.
C30_StoreAppendOnly ==
    [][/\ Len(message_rows') >= Len(message_rows)
       /\ \A i \in 1..Len(message_rows) : message_rows'[i] = message_rows[i]
       /\ Len(action_rows') >= Len(action_rows)
       /\ \A i \in 1..Len(action_rows) : action_rows'[i] = action_rows[i]]_vars

\* a chain of two tools has ended and the answer is stored: two message
\* rows and two action rows
C30_Witness ==
    /\ pc = "done"
    /\ chain_outcome = "returned"
    /\ message_rows = <<"user", "assistant">>
    /\ Len(action_rows) = 2

C32_CeilingReturnsNormally ==
    /\ [][(/\ pc = "reflect"
           /\ step = MAX_CHAIN_STEPS
           /\ WantsNext(follow_decision', should_continue))
          => /\ pc' = "chain_done"
             /\ dispatches' = MAX_CHAIN_STEPS
             /\ reflections' = MAX_CHAIN_STEPS
             /\ Len(chain_context') = MAX_CHAIN_STEPS
             /\ final_response' = follow_decision'["response"]]_vars
    /\ [][pc = "chain_done"
          => /\ chain_outcome' = "returned"
             /\ pc' \in {"store_assistant", "except"}]_vars
    /\ [][dispatches = MAX_CHAIN_STEPS => dispatches' = dispatches]_vars

\* the chain is Done at the ceiling; the Decision in hand is the last
\* reflection's and names a tool that is not run
C32_Witness ==
    /\ pc = "chain_done"
    /\ final_response = follow_decision["response"]
    /\ step = MAX_CHAIN_STEPS
    /\ reflections = MAX_CHAIN_STEPS
    /\ dispatches = MAX_CHAIN_STEPS
    /\ Dispatchable(Get(follow_decision, "action", Str("none")))
    /\ "_original_message" \in DOMAIN follow_decision

\* C33: when the reflection's answer is a record without a "response"
\* field, process_tool_result returns a Decision with action "none" and
\* continue false, whatever action and continue flag the record held, and
\* the continuation test of the chain fails on it.
C33_RecordWithoutResponseDropped ==
    (/\ pc = "process_tool_result_ret"
     /\ outcomes # <<"exc">>
     /\ Len(raw) = 1
     /\ raw[1].k = "json"
     /\ raw[1].j.t = "obj"
     /\ "response" \notin DOMAIN raw[1].j.d)
    => /\ follow_decision["action"] = Str("none")
       /\ follow_decision["continue"] = Bool(FALSE)
       /\ \A should \in {Bool(TRUE), Bool(FALSE)} :
             ~WantsNext(follow_decision, should)

\* the record asked for execute_cmd with continue true
C33_Witness ==
    /\ pc = "process_tool_result_ret"
    /\ outcomes # <<"exc">>
    /\ Len(raw) = 1
    /\ raw[1].k = "json"
    /\ raw[1].j.t = "obj"
    /\ DOMAIN raw[1].j.d = {"action", "continue"}
    /\ raw[1].j.d["action"] = Str("execute_cmd")
    /\ raw[1].j.d["continue"] = Bool(TRUE)
    /\ follow_decision["action"] = Str("none")
    /\ follow_decision["response"] = Str("json")

\* ------------------------------------------------------------------------
\* The retry loop of Brain.think for any configured number of attempts
\* ------------------------------------------------------------------------

\* the longest run of reasoning-call outcomes tried
MaxAttempts == 3

\* what one iteration of the loop can meet: the service call raises, the
\* output does not extract, extracts to a record, or to another JSON value
AttemptOutcomes == {"exc", "unparseable", "object", "nonobject"}

\* a loop whose except clause never returns
RECURSIVE think_loop_except_falls_through(_, _, _)
think_loop_except_falls_through(max_retries, outs, k) ==
    IF k >= max_retries
    THEN [ret |-> "unexpected_flow", calls |-> k]
    ELSE IF outs[k + 1] = "object"
    THEN [ret |-> "decision", calls |-> k + 1]
    ELSE IF outs[k + 1] \in {"exc", "nonobject"}
    THEN think_loop_except_falls_through(max_retries, outs, k + 1)
    ELSE IF k < max_retries - 1
    THEN think_loop_except_falls_through(max_retries, outs, k + 1)
    ELSE [ret |-> "fallback", calls |-> k + 1]

\* `for attempt in range(MAX_RETRIES)` from iteration k on: the return
\* statement that ends think() and the number of reasoning calls made
RECURSIVE think_loop(_, _, _)
think_loop(max_retries, outs, k) ==
    IF k >= max_retries
    THEN [ret |-> "unexpected_flow", calls |-> k]          \* lines 529-535
    ELSE IF outs[k + 1] = "object"
    THEN [ret |-> "decision", calls |-> k + 1]             \* line 502
    ELSE IF outs[k + 1] \in {"exc", "nonobject"}           \* lines 518-527
    THEN IF k = max_retries - 1
         THEN [ret |-> "error", calls |-> k + 1]
         ELSE think_loop(max_retries, outs, k + 1)
    ELSE IF k < max_retries - 1                            \* lines 504-506
    THEN think_loop(max_retries, outs, k + 1)
    ELSE [ret |-> "fallback", calls |-> k + 1]             \* lines 508-516

InitRetry ==
    /\ InitRest
    /\ fpc = "call"
    /\ ftext \in [max_retries : -1 .. MaxAttempts,
                  outcomes : [1 .. MaxAttempts -> AttemptOutcomes]]
    /\ fresult = Undef

\* the loop runs from attempt 0
RetryLoop ==
    /\ fpc = "call"
    /\ fresult' = think_loop(ftext.max_retries, ftext.outcomes, 0)
    /\ fpc' = "return"
    /\ UNCHANGED <<ftext, handlerVars, concVars, authVars, lifeVars, knowVars>>

SpecRetry == InitRetry /\ [][RetryLoop]_vars

\* C34: with MAX_RETRIES >= 1 think() returns from inside the loop after
\* at least one and at most MAX_RETRIES reasoning calls, never by the
\* statement after the loop; that statement returns only when
\* MAX_RETRIES <= 0, and then no reasoning call was made.
C34_TrailingReturnUnreachable ==
    fpc = "return"
    => /\ ftext.max_retries >= 1
          => /\ fresult.ret # "unexpected_flow"
             /\ fresult.calls \in 1 .. ftext.max_retries
       /\ fresult.ret = "unexpected_flow"
          => /\ ftext.max_retries <= 0
             /\ fresult.calls = 0
       /\ ftext.max_retries <= 0 => fresult.ret = "unexpected_flow"

\* every attempt raised: the last one returns from the except clause
C34_Witness ==
    /\ fpc = "return"
    /\ ftext.max_retries = MaxAttempts
    /\ \A i \in 1 .. MaxAttempts : ftext.outcomes[i] = "exc"
    /\ fresult = [ret |-> "error", calls |-> MaxAttempts]

\* ------------------------------------------------------------------------
\* main, CognitionLoop and Watchdog (main.py, cognition_loop.py, watchdog.py)
\* ------------------------------------------------------------------------

\* Config.MAX_RESTART_ATTEMPTS
MAX_RESTART_ATTEMPTS == 5

\* ticks followed
MaxTicks == 2

\* a start() without the guard of lines 31-33
start_unguarded(running, task, live) ==
    [running |-> TRUE, task |-> "live", live |-> live + 1]

\* CognitionLoop.start, lines 29-37: the flag, the task referenced by
\* _task and the number of pending loop tasks after the call
start(running, task, live) ==
    IF running
    THEN [running |-> running, task |-> task, live |-> live]
    ELSE [running |-> TRUE, task |-> "live", live |-> live + 1]

\* a limit test that lets one more restart through
MayRestart_inclusive(count) == count <= MAX_RESTART_ATTEMPTS

\* watchdog.py line 65
MayRestart(count) == count < MAX_RESTART_ATTEMPTS

\* main.py 84-85
MainStartCognition ==
    /\ mpc = "start_cognition"
    /\ LET after == start(cog_running, cog_task, cog_live)
       IN  /\ cog_running' = after.running
           /\ cog_task' = after.task
           /\ cog_live' = after.live
    /\ mpc' = "start_watchdog"
    /\ UNCHANGED <<spc, tick_count, wd_running, wpc, restart_count, wd_last>>
    /\ UNCHANGED <<handlerVars, concVars, authVars, fnVars, knowVars>>

\* main.py 89-90 and Watchdog.start, lines 30-34: the monitor task is made
MainStartWatchdog ==
    /\ mpc = "start_watchdog"
    /\ wd_running' = TRUE
    /\ wpc' = "check"
    /\ mpc' = "polling"
    /\ UNCHANGED <<spc, cog_running, cog_task, cog_live, tick_count,
                   restart_count, wd_last>>
    /\ UNCHANGED <<handlerVars, concVars, authVars, fnVars, knowVars>>

\* one pass of the while loop of _loop, lines 54-57: a tick that raises is
\* logged and leaves the counter as it was
CognitionTick ==
    /\ cog_task = "live"
    /\ cog_running
    /\ tick_count < MaxTicks
    /\ tick_count' = tick_count + 1
    /\ UNCHANGED <<mpc, spc, cog_running, cog_task, cog_live, wd_running,
                   wpc, restart_count, wd_last>>
    /\ UNCHANGED <<handlerVars, concVars, authVars, fnVars, knowVars>>

\* the task of _loop ends without stop(): the break of lines 58-59, or an
\* exception raised outside the try block (line 63); _running is not touched
LoopTaskEnds ==
    /\ cog_task = "live"
    /\ cog_task' = "done"
    /\ cog_live' = cog_live - 1
    /\ UNCHANGED <<mpc, spc, cog_running, tick_count, wd_running, wpc,
                   restart_count, wd_last>>
    /\ UNCHANGED <<handlerVars, concVars, authVars, fnVars, knowVars>>

\* Watchdog._check_health, lines 62-82, run by _monitor (lines 49-51): no
\* other coroutine runs between the test of line 63 and line 68
CheckCognition ==
    /\ wpc = "check"
    /\ wd_running
    /\ wpc' = "report"
    /\ IF ~cog_running
       THEN IF MayRestart(restart_count)
            THEN \/ LET after == start(cog_running, cog_task, cog_live)
                    IN  /\ cog_running' = after.running
                        /\ cog_task' = after.task
                        /\ cog_live' = after.live
                        /\ restart_count' = restart_count + 1
                        /\ wd_last' = "restarted"
                 \/ /\ cog_running' = TRUE   \* line 36 raises: lines 76-77
                    /\ wd_last' = "raised"
                    /\ UNCHANGED <<cog_task, cog_live, restart_count>>
            ELSE /\ wd_last' = "limit"       \* lines 78-82
                 /\ UNCHANGED <<cog_running, cog_task, cog_live,
                                restart_count>>
       ELSE /\ wd_last' = "healthy"
            /\ UNCHANGED <<cog_running, cog_task, cog_live, restart_count>>
    /\ UNCHANGED <<mpc, spc, tick_count, wd_running>>
    /\ UNCHANGED <<handlerVars, concVars, authVars, fnVars, knowVars>>

\* the store writes and reads of lines 70-75 and 85-101; one that raises is
\* caught at lines 76-77 or 54-55
HealthReport ==
    /\ wpc = "report"
    /\ wpc' = "sleep"
    /\ UNCHANGED <<mpc, spc, cog_running, cog_task, cog_live, tick_count,
                   wd_running, restart_count, wd_last>>
    /\ UNCHANGED <<handlerVars, concVars, authVars, fnVars, knowVars>>

\* line 57, then the test of line 49
MonitorWake ==
    /\ wpc = "sleep"
    /\ wd_running
    /\ wpc' = "check"
    /\ UNCHANGED <<mpc, spc, cog_running, cog_task, cog_live, tick_count,
                   wd_running, restart_count, wd_last>>
    /\ UNCHANGED <<handlerVars, concVars, authVars, fnVars, knowVars>>

\* the signal handler makes a task of shutdown(), main.py 125-128
SignalShutdown ==
    /\ mpc \in {"polling", "finally"}
    /\ spc["signal"] = "idle"
    /\ spc' = [spc EXCEPT !["signal"] = "stop_watchdog"]
    /\ UNCHANGED <<mpc, cog_running, cog_task, cog_live, tick_count,
                   wd_running, wpc, restart_count, wd_last>>
    /\ UNCHANGED <<handlerVars, concVars, authVars, fnVars, knowVars>>

\* polling ends and the finally clause calls shutdown(), main.py 130-138
PollingEnds ==
    /\ mpc = "polling"
    /\ mpc' = "finally"
    /\ spc' = [spc EXCEPT !["finally"] = "stop_watchdog"]
    /\ UNCHANGED <<cog_running, cog_task, cog_live, tick_count,
                   wd_running, wpc, restart_count, wd_last>>
    /\ UNCHANGED <<handlerVars, concVars, authVars, fnVars, knowVars>>

\* Watchdog.stop, lines 36-45, called at main.py 117: a cancelled monitor
\* task runs no further health check (lines 52-53 and 57)
StopWatchdog(s) ==
    /\ spc[s] = "stop_watchdog"
    /\ wd_running' = FALSE
    /\ wpc' = IF wpc = "none" THEN "none" ELSE "done"
    /\ spc' = [spc EXCEPT ![s] = "stop_cognition"]
    /\ UNCHANGED <<mpc, cog_running, cog_task, cog_live, tick_count,
                   restart_count, wd_last>>
    /\ UNCHANGED <<handlerVars, concVars, authVars, fnVars, knowVars>>

\* CognitionLoop.stop up to its await, lines 39-45: a cancelled loop task
\* ticks no more (lines 58-59 and 63)
stop(s) ==
    /\ cog_running' = FALSE
    /\ cog_task' = IF cog_task = "none" THEN "none" ELSE "done"
    /\ cog_live' = IF cog_task = "live" THEN cog_live - 1 ELSE cog_live
    /\ spc' = [spc EXCEPT ![s] = "await_cognition"]

\* main.py 118
StopCognition(s) ==
    /\ spc[s] = "stop_cognition"
    /\ stop(s)
    /\ UNCHANGED <<mpc, tick_count, wd_running, wpc, restart_count, wd_last>>
    /\ UNCHANGED <<handlerVars, concVars, authVars, fnVars, knowVars>>

\* stop() returns, lines 45-48; shutdown() runs to its end, main.py 119-122
CognitionStopped(s) ==
    /\ spc[s] = "await_cognition"
    /\ spc' = [spc EXCEPT ![s] = IF s = "owner" THEN "idle" ELSE "done"]
    /\ UNCHANGED <<mpc, cog_running, cog_task, cog_live, tick_count,
                   wd_running, wpc, restart_count, wd_last>>
    /\ UNCHANGED <<handlerVars, concVars, authVars, fnVars, knowVars>>

\* no shutdown() has begun
Serving == mpc = "polling" /\ spc["signal"] = "idle"

\* another coroutine stops the loop while the bot is serving
OwnerStop ==
    /\ Serving
    /\ spc["owner"] = "idle"
    /\ stop("owner")
    /\ UNCHANGED <<mpc, tick_count, wd_running, wpc, restart_count, wd_last>>
    /\ UNCHANGED <<handlerVars, concVars, authVars, fnVars, knowVars>>

\* another coroutine calls start() while the bot is serving
OwnerStart ==
    /\ Serving
    /\ spc["owner"] = "idle"
    /\ LET after == start(cog_running, cog_task, cog_live)
       IN  /\ cog_running' = after.running
           /\ cog_task' = after.task
           /\ cog_live' = after.live
    /\ spc' = [spc EXCEPT !["owner"] = "start_ret"]
    /\ UNCHANGED <<mpc, tick_count, wd_running, wpc, restart_count, wd_last>>
    /\ UNCHANGED <<handlerVars, concVars, authVars, fnVars, knowVars>>

\* start() has returned to its caller
OwnerResumes ==
    /\ spc["owner"] = "start_ret"
    /\ spc' = [spc EXCEPT !["owner"] = "idle"]
    /\ UNCHANGED <<mpc, cog_running, cog_task, cog_live, tick_count,
                   wd_running, wpc, restart_count, wd_last>>
    /\ UNCHANGED <<handlerVars, concVars, authVars, fnVars, knowVars>>

\* the objects as constructed, main.py 84 and 89
InitLifecycle ==
    /\ pc = "idle"
    /\ InitLocals
    /\ hpc = [h \in Handlers |-> "waiting"]
    /\ hstep = [h \in Handlers |-> 0]
    /\ heffects = [h \in Handlers |-> 0]
    /\ sender = 0
    /\ kind = "none"
    /\ apc = "waiting"
    /\ aplain = FALSE
    /\ astep = 0
    /\ alog = <<>>
    /\ fpc = "idle"
    /\ ftext = <<>>
    /\ fresult = Undef
    /\ InitKnowRest
    /\ mpc = "start_cognition"
    /\ spc = [s \in Stoppers |-> "idle"]
    /\ cog_running = FALSE
    /\ cog_task = "none"
    /\ cog_live = 0
    /\ tick_count = 0
    /\ wd_running = FALSE
    /\ wpc = "none"
    /\ restart_count = 0
    /\ wd_last = "none"

\* the steps of the task of Watchdog._monitor
MonitorStep == CheckCognition \/ HealthReport \/ MonitorWake

NextLifecycle ==
    \/ MainStartCognition
    \/ MainStartWatchdog
    \/ CognitionTick
    \/ LoopTaskEnds
    \/ CheckCognition
    \/ HealthReport
    \/ MonitorWake
    \/ SignalShutdown
    \/ PollingEnds
    \/ \E s \in {"signal", "finally"} : StopWatchdog(s)
    \/ \E s \in {"signal", "finally"} : StopCognition(s)
    \/ \E s \in Stoppers : CognitionStopped(s)
    \/ OwnerStop
    \/ OwnerStart
    \/ OwnerResumes

SpecLifecycle == InitLifecycle /\ [][NextLifecycle]_vars

\* the event loop runs the monitor task whenever it can make a step
FairLifecycle == SpecLifecycle /\ WF_vars(MonitorStep)

\* C35: when no loop task is pending any more while the watchdog monitors
\* and fewer than MAX_RESTART_ATTEMPTS restarts were made, a loop task is
\* started later, unless the watchdog is stopped first.
C35_FailedLoopRestarted ==
    (/\ cog_task = "done"
     /\ cog_live = 0
     /\ wd_running
     /\ restart_count < MAX_RESTART_ATTEMPTS)
    ~> (cog_live > 0 \/ ~wd_running)

\* C36: the restart counter stays within MAX_RESTART_ATTEMPTS; it changes
\* only by a health check whose start() call returned, and then by one; at
\* the limit no health check calls start().
C36_RestartCounter ==
    /\ [](restart_count \in 0 .. MAX_RESTART_ATTEMPTS)
    /\ [][restart_count' # restart_count
          => /\ restart_count' = restart_count + 1
             /\ wpc = "check" /\ wpc' = "report"
             /\ wd_last' = "restarted"
             /\ ~cog_running /\ cog_running' /\ cog_task' = "live"]_vars
    /\ [][(restart_count = MAX_RESTART_ATTEMPTS /\ wpc = "check"
           /\ wpc' = "report")
          => /\ wd_last' \in {"healthy", "limit"}
             /\ UNCHANGED <<cog_running, cog_task, cog_live>>]_vars

\* the loop is found stopped once more after the fifth restart
C36_Witness ==
    /\ restart_count = MAX_RESTART_ATTEMPTS
    /\ wd_last = "limit"
    /\ wpc = "report"
    /\ ~cog_running

\* C37: a start() call on a running loop leaves the loop task as it is; at
\* most one loop task is pending and not cancelled at any time, and none
\* once a shutdown() has run to its end.
C37_OneLoopTask ==
    /\ [](cog_live \in {0, 1})
    /\ [][(cog_running /\ spc["owner"] = "idle"
           /\ spc'["owner"] = "start_ret")
          => UNCHANGED <<cog_running, cog_task, cog_live>>]_vars
    /\ [](\A s \in {"signal", "finally"} :
            spc[s] = "done" => cog_live = 0 /\ ~cog_running)

\* start() was called on a loop that the watchdog had restarted and that
\* is still ticking
C37_Witness ==
    /\ spc["owner"] = "start_ret"
    /\ restart_count >= 1
    /\ cog_running
    /\ cog_task = "live"
    /\ cog_live = 1
    /\ tick_count >= 1

\* ------------------------------------------------------------------------
\* Memory.store_knowledge (memory.py) called from interleaved coroutines
\* ------------------------------------------------------------------------

\* store_knowledge calls followed
MaxStoreCalls == 3

\* the coroutines that call store_knowledge (tools.py 2594)
Callers == {1, 2}

Categories == {"c1", "c2"}

Keys == {"k1", "k2"}

Values == {"v1", "v2"}

\* the rows a SELECT ... WHERE category = ? AND key = ? finds
RowsOf(rows, category, key) ==
    {i \in 1 .. Len(rows) : rows[i].category = category /\ rows[i].key = key}

\* a store that inserts without looking for the pair
store_knowledge_insert_only(rows, category, key, value) ==
    Append(rows, [id |-> Len(rows) + 1, category |-> category,
                  key |-> key, value |-> value])

\* lines 333-349: the table after a call that commits
store_knowledge(rows, category, key, value) ==
    LET existing == RowsOf(rows, category, key)
    IN  IF existing # {}
        THEN LET i == CHOOSE i \in existing : \A j \in existing : i <= j
             IN  [rows EXCEPT ![i].value = value]        \* lines 338-343
        ELSE Append(rows, [id |-> Len(rows) + 1, category |-> category,
                           key |-> key, value |-> value]) \* lines 344-348

\* a coroutine calls store_knowledge and queues for the lock, line 329
CallStoreKnowledge ==
    /\ Len(klog) + Len(kqueue) < MaxStoreCalls
    /\ \E c \in Callers, category \in Categories, key \in Keys,
          value \in Values :
         /\ \A i \in 1 .. Len(kqueue) : kqueue[i].caller # c
         /\ kqueue' = Append(kqueue, [caller |-> c, category |-> category,
                                      key |-> key, value |-> value])
    /\ UNCHANGED <<knowledge, klog>>
    /\ UNCHANGED <<handlerVars, concVars, authVars, fnVars, lifeVars>>

\* the holder of the lock runs lines 330-352, which await nothing: it
\* commits, or sqlite3 raises and the connection is closed uncommitted
StoreKnowledge ==
    /\ kqueue # <<>>
    /\ LET call == Head(kqueue)
       IN  \/ /\ knowledge' = store_knowledge(knowledge, call.category,
                                              call.key, call.value)
              /\ klog' = Append(klog, [category |-> call.category,
                                       key |-> call.key,
                                       value |-> call.value,
                                       raised |-> FALSE])
           \/ /\ knowledge' = knowledge
              /\ klog' = Append(klog, [category |-> call.category,
                                       key |-> call.key,
                                       value |-> call.value,
                                       raised |-> TRUE])
    /\ kqueue' = Tail(kqueue)
    /\ UNCHANGED <<handlerVars, concVars, authVars, fnVars, lifeVars>>

InitKnowledge ==
    /\ InitRest
    /\ fpc = "idle"
    /\ ftext = <<>>
    /\ fresult = Undef

SpecKnowledge == InitKnowledge /\ [][CallStoreKnowledge \/ StoreKnowledge]_vars

\* the calls for a pair that have ended, and those that committed
EndedCalls(category, key) ==
    {i \in 1 .. Len(klog) : klog[i].category = category /\ klog[i].key = key}

CommittedCalls(category, key) ==
    {i \in EndedCalls(category, key) : ~klog[i].raised}

\* the latest of a nonempty set of calls
Latest(calls_) == CHOOSE i \in calls_ : \A j \in calls_ : j <= i

\* C38 as stated: the table has at most one row per pair, and a pair for
\* which a call has ended has a row with the value of its latest call.
C38_RowOfLatestCall ==
    \A category \in Categories, key \in Keys :
        /\ Cardinality(RowsOf(knowledge, category, key)) <= 1
        /\ EndedCalls(category, key) # {}
           => \E i \in RowsOf(knowledge, category, key) :
                knowledge[i].value
                    = klog[Latest(EndedCalls(category, key))].value

\* C38 amended: the table has at most one row per pair; a pair has a row
\* exactly when a call for it has committed, and the row holds the value
\* of the latest call for the pair that committed.
C38_RowOfLatestCommittedCall ==
    \A category \in Categories, key \in Keys :
        /\ Cardinality(RowsOf(knowledge, category, key)) <= 1
        /\ (RowsOf(knowledge, category, key) # {})
           <=> (CommittedCalls(category, key) # {})
        /\ \A i \in RowsOf(knowledge, category, key) :
             knowledge[i].value
                 = klog[Latest(CommittedCalls(category, key))].value

\* two coroutines stored different values for one pair, the second while
\* the first held the lock, and a later call for the pair raised
C38_Witness ==
    /\ Len(klog) = 3
    /\ \A i \in 1 .. 3 : klog[i].category = "c1" /\ klog[i].key = "k1"
    /\ klog[1].value = "v1" /\ ~klog[1].raised
    /\ klog[2].value = "v2" /\ ~klog[2].raised
    /\ klog[3].value = "v1" /\ klog[3].raised
    /\ Len(knowledge) = 1
    /\ knowledge[1].value = "v2"

\* ------------------------------------------------------------------------
\* split_message (telegram_handler.py)
\* ------------------------------------------------------------------------

\* stands for the default max_length, 4096
MaxLength == 4

\* the longest text split
MaxTextLen == 8

\* a letter, a space and a newline
SplitAlphabet == {"a", " ", "\n"}

\* str.rfind for one character: the last 0-based index of c in t, or -1
rfind(t, c) ==
    LET found == {i \in 1 .. Len(t) : t[i] = c}
    IN  IF found = {} THEN -1
        ELSE (CHOOSE i \in found : \A j \in found : j <= i) - 1

\* t without its first n characters
Drop(t, n) == SubSeq(t, n + 1, Len(t))

\* the number of characters of chars that t begins with
LeadingRun(t, chars) ==
    LET other == {i \in 1 .. Len(t) : t[i] \notin chars}
    IN  IF other = {} THEN Len(t)
        ELSE (CHOOSE i \in other : \A j \in other : i <= j) - 1

\* str.lstrip() without an argument: spaces go as well
lstrip_whitespace(t) == Drop(t, LeadingRun(t, {"\n", " "}))

\* str.lstrip("\n"), line 69
lstrip_newlines(t) == Drop(t, LeadingRun(t, {"\n"}))

\* lines 62-67, for a text longer than max_length
split_pos(t, max_length) ==
    LET head == SubSeq(t, 1, max_length)
        half == max_length \div 2
        newline == rfind(head, "\n")
        space == rfind(head, " ")
    IN  IF ~(newline = -1 \/ newline < half) THEN newline
        ELSE IF ~(space = -1 \/ space < half) THEN space
        ELSE max_length

InitSplit ==
    /\ InitRest
    /\ fpc = "call"
    /\ ftext \in UNION {[1 .. n -> SplitAlphabet] : n \in 0 .. MaxTextLen}
    /\ fresult = Undef

\* lines 53-56
SplitEnter ==
    /\ fpc = "call"
    /\ IF Len(ftext) <= MaxLength
       THEN /\ fresult' = [text |-> ftext, chunks |-> <<ftext>>]
            /\ fpc' = "return"
       ELSE /\ fresult' = [text |-> ftext, chunks |-> <<>>]
            /\ fpc' = "loop"
    /\ UNCHANGED <<ftext, handlerVars, concVars, authVars, lifeVars, knowVars>>

\* one pass of the while loop, lines 57-69, or its end, line 70
SplitStep ==
    /\ fpc = "loop"
    /\ LET t == fresult.text
           pos == split_pos(t, MaxLength)
       IN  IF t = <<>>
           THEN /\ fpc' = "return"
                /\ fresult' = fresult
           ELSE IF Len(t) <= MaxLength
           THEN /\ fpc' = "return"
                /\ fresult' = [text |-> t,
                               chunks |-> Append(fresult.chunks, t)]
           ELSE /\ fpc' = "loop"
                /\ fresult' = [text |-> lstrip_newlines(Drop(t, pos)),
                               chunks |-> Append(fresult.chunks,
                                                 SubSeq(t, 1, pos))]
    /\ UNCHANGED <<ftext, handlerVars, concVars, authVars, lifeVars, knowVars>>

NextSplit == SplitEnter \/ SplitStep

SpecSplit == InitSplit /\ [][NextSplit]_vars

\* the call runs on
FairSplit == SpecSplit /\ WF_vars(NextSplit)

\* t is the chunks in order, with newlines and nothing else left out
\* after each chunk
RECURSIVE Rebuilds(_, _)
Rebuilds(chunks, t) ==
    IF chunks = <<>>
    THEN t = <<>>
    ELSE LET c == Head(chunks)
             rest == Drop(t, Len(c))
         IN  /\ Len(c) <= Len(t)
             /\ SubSeq(t, 1, Len(c)) = c
             /\ \E k \in 0 .. Len(rest) :
                  /\ \A i \in 1 .. k : rest[i] = "\n"
                  /\ Rebuilds(Tail(chunks), Drop(rest, k))

\* C39: split_message returns; every chunk has at most max_length
\* characters; a text of at most max_length characters comes back as the
\* one chunk; the text is the chunks in order with only newlines left out
\* where a chunk ends; every pass of the loop shortens what is left.
C39_SplitMessage ==
    /\ <>(fpc = "return")
    /\ [](fpc \in {"loop", "return"}
          => \A i \in 1 .. Len(fresult.chunks) :
               Len(fresult.chunks[i]) <= MaxLength)
    /\ []((fpc = "return" /\ Len(ftext) <= MaxLength)
          => fresult.chunks = <<ftext>>)
    /\ [](fpc = "return" => Rebuilds(fresult.chunks, ftext))
    /\ [][(fpc = "loop" /\ fpc' = "loop")
          => Len(fresult'.text) < Len(fresult.text)]_vars

\* a split at a space, then a split at a newline that is dropped together
\* with the one after it
C39_Witness ==
    /\ fpc = "return"
    /\ ftext = <<"a", "a", " ", "a", "a", "\n", "\n", "a">>
    /\ fresult.chunks = << <<"a", "a">>, <<" ", "a", "a">>, <<"a">> >>

=============================================================================
